---- MODULE Spec2Model ----
(***************************************************************************)
(* ClearVM: the stack-based bytecode interpreter of the Clear language.    *)
(* The model follows src/ClearVM/chunk.c (the VM translation unit, lines   *)
(* 470-1764), src/unnamed/part_000 (vm.h), src/unnamed/part_014            *)
(* (bytecode.h) and src/ClearVM/value.h.                                   *)
(*                                                                         *)
(* Pointers are modelled as offsets: ip/start/end are byte offsets into    *)
(* the module buffer (code[ip+1] is the byte ip points at), fp/sp are slot *)
(* indices into vm.stack (slot i is stack[i+1]).  Heap objects are the     *)
(* elements of vm.objects and an object pointer is its index (NULL is 0).  *)
(* The payload union of a Value is the tuple `as`.                         *)
(***************************************************************************)
EXTENDS Integers, Sequences, FiniteSets, TLC

VARIABLES
    code,     \* the module buffer readFile fills and executeCode is handed (header, then code)
    length,   \* its length in bytes
    vm,       \* struct sVM
    result,   \* "start" in main before readFile, "init" before executeCode,
              \* "running" inside runVM, then the outcome
    stdout,   \* the lines printed by OP_PRINT
    calls,    \* history: one record per OP_CALL that has not returned yet
    hist,     \* history: captured slots, values of popped captures, global writes
    main      \* the launcher: its position, the file, the buffer, freeVM calls, exit status

vars == <<code, length, vm, result, stdout, calls, hist, main>>

\* ------------------------------------------------------------------------
\* Program constants
\* ------------------------------------------------------------------------
STACK_MAX == 512
GLOBAL_MAX == 256
OP_COUNT == 53
U8_MAX == 255

CONST_INT == 0
CONST_NUM == 1
CONST_STR == 2

VAL_BOOL == 0
VAL_NIL == 1
VAL_OBJ == 2
VAL_INT == 3
VAL_NUM == 4
VAL_IP == 5
VAL_FP == 6

OBJ_STRING == 0
OBJ_STRUCT == 1
OBJ_UPVALUE == 2

OP_PUSH_CONST == 0
OP_PUSH_TRUE == 1
OP_PUSH_FALSE == 2
OP_PUSH_NIL == 3
OP_SET_GLOBAL == 4
OP_PUSH_GLOBAL == 5
OP_SET_LOCAL == 6
OP_PUSH_LOCAL == 7
OP_INT == 8
OP_BOOL == 9
OP_NUM == 10
OP_STR == 11
OP_CLOCK == 12
OP_PRINT == 13
OP_POP == 14
OP_SQUASH == 15
OP_INT_NEG == 16
OP_NUM_NEG == 17
OP_INT_ADD == 18
OP_NUM_ADD == 19
OP_INT_SUB == 20
OP_NUM_SUB == 21
OP_INT_MUL == 22
OP_NUM_MUL == 23
OP_INT_DIV == 24
OP_NUM_DIV == 25
OP_STR_CAT == 26
OP_NOT == 27
OP_INT_LESS == 28
OP_NUM_LESS == 29
OP_INT_GREATER == 30
OP_NUM_GREATER == 31
OP_EQUAL == 32
OP_JUMP == 33
OP_JUMP_IF_FALSE == 34
OP_LOOP == 35
OP_FUNCTION == 36
OP_CALL == 37
OP_LOAD_IP == 38
OP_LOAD_FP == 39
OP_SET_RETURN == 40
OP_PUSH_RETURN == 41
OP_STRUCT == 42
OP_DESTRUCT == 43
OP_GET_FIELD == 44
OP_EXTRACT_FIELD == 45
OP_SET_FIELD == 46
OP_INSERT_FIELD == 47
OP_REF_LOCAL == 48
OP_DEREF == 49
OP_SET_REF == 50
OP_IS_VAL_TYPE == 51
OP_IS_OBJ_TYPE == 52

NULL == 0

\* ------------------------------------------------------------------------
\* Values (value.h) and their constructors
\* ------------------------------------------------------------------------
makeBool(unboxed) ==
    [type |-> VAL_BOOL, as |-> <<IF unboxed THEN 1 ELSE 0>>, references |-> NULL]

makeNil ==
    [type |-> VAL_NIL, as |-> <<>>, references |-> NULL]

makeInt(unboxed) ==
    [type |-> VAL_INT, as |-> <<unboxed>>, references |-> NULL]

makeNum(bits) ==
    [type |-> VAL_NUM, as |-> bits, references |-> NULL]

makeIP(unboxed) ==
    [type |-> VAL_IP, as |-> <<unboxed>>, references |-> NULL]

makeFP(unboxed) ==
    [type |-> VAL_FP, as |-> <<unboxed>>, references |-> NULL]

ObjRef(id) ==
    [type |-> VAL_OBJ, as |-> <<id>>, references |-> NULL]

\* The two components every copy of a value shares: tag and payload.
SameValue(a, b) == a.type = b.type /\ a.as = b.as

IsObjOfType(m, v, t) ==
    v.type = VAL_OBJ /\ m.objects[v.as[1]].type = t

\* makeObject: a new object record is linked into vm->objects.
makeObject(m, obj) ==
    [vm |-> [m EXCEPT !.objects = Append(@, obj)], id |-> Len(m.objects) + 1]

makeString(m, data) ==
    LET r == makeObject(m, [type |-> OBJ_STRING, data |-> data])
    IN  [vm |-> r.vm, value |-> ObjRef(r.id)]

\* makeStruct: the field array is allocated, its contents are whatever
\* OP_STRUCT copies into it.
makeStruct(m, fieldCount) ==
    LET r == makeObject(m, [type |-> OBJ_STRUCT, fieldCount |-> fieldCount,
                            fields |-> <<>>])
    IN  [vm |-> r.vm, value |-> ObjRef(r.id)]

\* makeUpvalue: the new open upvalue is pushed on the slot's reference chain.
makeUpvalue(m, slot) ==
    LET r == makeObject(m, [type |-> OBJ_UPVALUE, open |-> TRUE, ptr |-> slot,
                            closed |-> makeNil,
                            next |-> m.stack[slot + 1].references])
    IN  [vm |-> [r.vm EXCEPT !.stack[slot + 1].references = r.id],
         value |-> ObjRef(r.id)]

\* The value an upvalue's ptr addresses: the stack slot while open, its own
\* `closed` copy afterwards.
UpvalueTarget(m, id) ==
    IF m.objects[id].open THEN m.stack[m.objects[id].ptr + 1]
    ELSE m.objects[id].closed

\* closeUpvalue: copy the referenced value into the upvalue and rewire ptr.
closeUpvalue(m, id) ==
    [m EXCEPT !.objects[id].closed = UpvalueTarget(m, id),
              !.objects[id].open = FALSE]

\* ------------------------------------------------------------------------
\* int32_t and double payloads.  An Int payload is the number itself; a Num
\* payload is the eight bytes of the IEEE-754 bit pattern, least significant
\* first (x86-64 layout), as *(double *) reads them from the module.
\* ------------------------------------------------------------------------
INT_MAX == 2147483647
INT_MIN == -2147483647 - 1

\* The four bytes of an int32_t, least significant first.
S32Bytes(n) ==
    LET n1 == n \div 256
        n2 == n1 \div 256
        n3 == n2 \div 256
    IN  <<n % 256, n1 % 256, n2 % 256, n3 % 256>>

\* The int32_t four bytes stand for.
BytesS32(b) ==
    (IF b[4] >= 128 THEN b[4] - 256 ELSE b[4]) * 16777216
        + b[3] * 65536 + b[2] * 256 + b[1]

\* a + b, a - b, -a and a * b as the machine computes them on int32_t:
\* the result is reduced modulo 2^32.
AddS32(a, b) ==
    IF a >= 0 /\ b >= 0 /\ a > INT_MAX - b
    THEN (a - INT_MAX - 1) + (b - INT_MAX - 1)
    ELSE IF a < 0 /\ b < 0 /\ a < INT_MIN - b
    THEN (a + INT_MAX + 1) + (b + INT_MAX + 1)
    ELSE a + b

NegS32(a) == IF a = INT_MIN THEN INT_MIN ELSE -a

SubS32(a, b) == AddS32(a, NegS32(b))

MulS32(a, b) ==
    LET x == S32Bytes(a)
        y == S32Bytes(b)
        c0 == x[1] * y[1]
        c1 == x[1] * y[2] + x[2] * y[1] + c0 \div 256
        c2 == x[1] * y[3] + x[2] * y[2] + x[3] * y[1] + c1 \div 256
        c3 == x[1] * y[4] + x[2] * y[3] + x[3] * y[2] + x[4] * y[1]
                  + c2 \div 256
    IN  BytesS32(<<c0 % 256, c1 % 256, c2 % 256, c3 % 256>>)

\* a / b where the quotient exists: truncation toward zero.
DivS32(a, b) ==
    IF b = INT_MIN THEN (IF a = INT_MIN THEN 1 ELSE 0)
    ELSE LET d == IF b < 0 THEN -b ELSE b
             t == IF a >= 0 \/ a % d = 0 THEN a \div d ELSE (a \div d) + 1
         IN  IF b < 0 THEN -t ELSE t

\* The quotient a / b does not exist: idiv raises #DE and the process is
\* killed by SIGFPE.
DivTraps(a, b) == b = 0 \/ (a = INT_MIN /\ b = -1)

\* Fields of a double's bit pattern.
F64Sign(x) == x[8] >= 128
F64Exp(x) == (x[8] % 128) * 16 + x[7] \div 16
F64Top(x) == (x[7] % 16) * 65536 + x[6] * 256 + x[5]
F64Low(x) == SubSeq(x, 1, 4)

F64Pack(neg, exp, top, low) ==
    low \o <<top % 256, (top \div 256) % 256,
             (exp % 16) * 16 + top \div 65536,
             (IF neg THEN 128 ELSE 0) + exp \div 16>>

F64Zero == <<0, 0, 0, 0, 0, 0, 0, 0>>
F64One == <<0, 0, 0, 0, 0, 0, 240, 63>>
F64Inf == <<0, 0, 0, 0, 0, 0, 240, 127>>
F64NaN == <<0, 0, 0, 0, 0, 0, 248, 127>>
\* value.h: #define NUM_PRECISION 0.0000001
NUM_PRECISION == <<72, 175, 188, 154, 242, 215, 122, 62>>

F64IsNaN(x) ==
    F64Exp(x) = 2047 /\ (F64Top(x) # 0 \/ F64Low(x) # <<0, 0, 0, 0>>)
F64IsInf(x) ==
    F64Exp(x) = 2047 /\ F64Top(x) = 0 /\ F64Low(x) = <<0, 0, 0, 0>>
F64IsZero(x) ==
    F64Exp(x) = 0 /\ F64Top(x) = 0 /\ F64Low(x) = <<0, 0, 0, 0>>

F64Neg(x) == [x EXCEPT ![8] = (@ + 128) % 256]
F64Abs(x) == [x EXCEPT ![8] = @ % 128]

\* |x| < |y| for non-NaN x, y: the patterns without the sign bit compare as
\* unsigned integers, most significant byte first.
RECURSIVE BytesBelow(_, _, _)
BytesBelow(x, y, i) ==
    IF i = 0 THEN FALSE
    ELSE IF x[i] # y[i] THEN x[i] < y[i]
    ELSE BytesBelow(x, y, i - 1)

MagLess(x, y) == BytesBelow(F64Abs(x), F64Abs(y), 8)

\* x < y on doubles.
F64Less(x, y) ==
    IF F64IsNaN(x) \/ F64IsNaN(y) THEN FALSE
    ELSE IF F64IsZero(x) /\ F64IsZero(y) THEN FALSE
    ELSE IF F64Sign(x) # F64Sign(y) THEN F64Sign(x)
    ELSE IF F64Sign(x) THEN MagLess(y, x)
    ELSE MagLess(x, y)

RECURSIVE Log2(_)
Log2(a) == IF a <= 1 THEN 0 ELSE 1 + Log2(a \div 2)

\* (double)n: every int32_t is a double.
S32ToF64(n) ==
    IF n = 0 THEN F64Zero
    ELSE IF n = INT_MIN THEN F64Pack(TRUE, 1023 + 31, 0, <<0, 0, 0, 0>>)
    ELSE LET a == IF n < 0 THEN -n ELSE n
             E == Log2(a)
             f == a - 2 ^ E
         IN  IF E <= 20
             THEN F64Pack(n < 0, 1023 + E, f * 2 ^ (20 - E), <<0, 0, 0, 0>>)
             ELSE LET r == (f % 2 ^ (E - 20)) * 2 ^ (36 - E)
                  IN  F64Pack(n < 0, 1023 + E, f \div 2 ^ (E - 20),
                              <<0, 0, r % 256, r \div 256>>)

\* What an out-of-range conversion or a read of bytes nothing has written
\* may yield: representative 32-bit patterns.
Indeterminate32 == {0, 1, -1, INT_MIN}

\* (int)x: the integral part when int32_t has it, otherwise the conversion is
\* undefined (NaN, infinities, |x| >= 2^31).
F64ToS32(x) ==
    LET E == F64Exp(x) - 1023
        hidden == 1048576 + F64Top(x)
        mag == IF E <= 20 THEN hidden \div 2 ^ (20 - E)
               ELSE hidden * 2 ^ (E - 20)
                        + (x[4] * 256 + x[3]) \div 2 ^ (36 - E)
    IN  IF E < 0 THEN {0}
        ELSE IF E <= 30 THEN {IF F64Sign(x) THEN -mag ELSE mag}
        ELSE IF E = 31 /\ F64Sign(x) /\ F64Top(x) = 0 /\ x[4] = 0 /\ x[3] < 32
        THEN {INT_MIN}
        ELSE Indeterminate32

\* ------------------------------------------------------------------------
\* Arithmetic on doubles.  The sum, product and quotient are computed where
\* they are exact and short: operands and result are NaN, an infinity, a
\* zero, or a normal double with at most 21 significant bits.  Computed(z)
\* is such a result, NotComputed stands for every other case.
\* ------------------------------------------------------------------------
Computed(z) == [ok |-> TRUE, bits |-> z]
NotComputed == [ok |-> FALSE, bits |-> <<>>]

\* The NaN an invalid operation (inf - inf, 0 * inf, 0 / 0) produces on
\* x86-64, and an operand NaN as it is handed on (quiet bit set).
F64Indefinite == <<0, 0, 0, 0, 0, 0, 248, 255>>
Quiet(x) == [x EXCEPT ![7] = IF (@ \div 8) % 2 = 1 THEN @ ELSE @ + 8]
NaNOf(x, y) == IF F64IsNaN(x) THEN Quiet(x) ELSE Quiet(y)

F64Short(x) ==
    \/ F64IsNaN(x) \/ F64IsInf(x) \/ F64IsZero(x)
    \/ F64Low(x) = <<0, 0, 0, 0>> /\ F64Exp(x) \in 1..2046

\* m * 2^e with the factors of two moved into e.
RECURSIVE Strip(_, _)
Strip(m, e) ==
    IF m % 2 = 0 THEN Strip(m \div 2, e + 1) ELSE [m |-> m, e |-> e]

\* A short normal double as m * 2^e, m odd.
Dyadic(x) == Strip(1048576 + F64Top(x), F64Exp(x) - 1043)

\* The double (-1)^neg * m * 2^e for m > 0, when it is short and normal.
Encode(neg, m, e) ==
    LET d == Strip(m, e)
        L == Log2(d.m)
    IN  IF L > 20 \/ d.e + L + 1023 < 1 \/ d.e + L + 1023 > 2046
        THEN NotComputed
        ELSE Computed(F64Pack(neg, d.e + L + 1023, (d.m - 2 ^ L) * 2 ^ (20 - L),
                              <<0, 0, 0, 0>>))

Signed(neg, x) == IF neg THEN F64Neg(F64Abs(x)) ELSE F64Abs(x)

F64Add(x, y) ==
    IF ~F64Short(x) \/ ~F64Short(y) THEN NotComputed
    ELSE IF F64IsNaN(x) \/ F64IsNaN(y) THEN Computed(NaNOf(x, y))
    ELSE IF F64IsInf(x) /\ F64IsInf(y)
    THEN (IF F64Sign(x) = F64Sign(y) THEN Computed(x) ELSE Computed(F64Indefinite))
    ELSE IF F64IsInf(x) THEN Computed(x)
    ELSE IF F64IsInf(y) THEN Computed(y)
    ELSE IF F64IsZero(x) /\ F64IsZero(y)
    THEN Computed(Signed(F64Sign(x) /\ F64Sign(y), F64Zero))
    ELSE IF F64IsZero(x) THEN Computed(y)
    ELSE IF F64IsZero(y) THEN Computed(x)
    ELSE LET a == Dyadic(x)
             b == Dyadic(y)
             e == IF a.e < b.e THEN a.e ELSE b.e
         IN  IF a.e - e > 9 \/ b.e - e > 9 THEN NotComputed
             ELSE LET sa == (IF F64Sign(x) THEN -a.m ELSE a.m) * 2 ^ (a.e - e)
                      sb == (IF F64Sign(y) THEN -b.m ELSE b.m) * 2 ^ (b.e - e)
                      s == sa + sb
                  IN  IF s = 0 THEN Computed(F64Zero)
                      ELSE Encode(s < 0, IF s < 0 THEN -s ELSE s, e)

F64Sub(x, y) ==
    IF F64Short(x) /\ F64Short(y) /\ (F64IsNaN(x) \/ F64IsNaN(y))
    THEN Computed(NaNOf(x, y))
    ELSE F64Add(x, F64Neg(y))

F64Mul(x, y) ==
    LET neg == F64Sign(x) # F64Sign(y) IN
    IF ~F64Short(x) \/ ~F64Short(y) THEN NotComputed
    ELSE IF F64IsNaN(x) \/ F64IsNaN(y) THEN Computed(NaNOf(x, y))
    ELSE IF F64IsInf(x) \/ F64IsInf(y)
    THEN (IF F64IsZero(x) \/ F64IsZero(y) THEN Computed(F64Indefinite)
          ELSE Computed(Signed(neg, F64Inf)))
    ELSE IF F64IsZero(x) \/ F64IsZero(y) THEN Computed(Signed(neg, F64Zero))
    ELSE LET a == Dyadic(x)
             b == Dyadic(y)
         IN  IF a.m > 2097151 \div b.m THEN NotComputed
             ELSE Encode(neg, a.m * b.m, a.e + b.e)

F64Div(x, y) ==
    LET neg == F64Sign(x) # F64Sign(y) IN
    IF ~F64Short(x) \/ ~F64Short(y) THEN NotComputed
    ELSE IF F64IsNaN(x) \/ F64IsNaN(y) THEN Computed(NaNOf(x, y))
    ELSE IF F64IsInf(x)
    THEN (IF F64IsInf(y) THEN Computed(F64Indefinite)
          ELSE Computed(Signed(neg, F64Inf)))
    ELSE IF F64IsInf(y) THEN Computed(Signed(neg, F64Zero))
    ELSE IF F64IsZero(y)
    THEN (IF F64IsZero(x) THEN Computed(F64Indefinite)
          ELSE Computed(Signed(neg, F64Inf)))
    ELSE IF F64IsZero(x) THEN Computed(Signed(neg, F64Zero))
    ELSE LET a == Dyadic(x)
             b == Dyadic(y)
         IN  IF a.m % b.m # 0 THEN NotComputed
             ELSE Encode(neg, a.m \div b.m, a.e - b.e)

\* ------------------------------------------------------------------------
\* Text: a string's data is the sequence of its bytes.
\* ------------------------------------------------------------------------
RECURSIVE Digits(_)
Digits(a) ==
    IF a < 10 THEN <<a>> ELSE Append(Digits(a \div 10), a % 10)

Ascii(ds) == [i \in 1..Len(ds) |-> 48 + ds[i]]

\* printf("%d") of an int32_t.
Decimal(n) ==
    IF n = INT_MIN THEN <<45>> \o Ascii(<<2, 1, 4, 7, 4, 8, 3, 6, 4, 8>>)
    ELSE IF n < 0 THEN <<45>> \o Ascii(Digits(-n))
    ELSE Ascii(Digits(n))

\* The doubles whose "%.7f" text is computed here: finite, below 2^31 in
\* magnitude, with no mantissa bit under 2^-27 (so that every step of the
\* digit extraction is exact in 32-bit arithmetic).
F64Fixable(x) ==
    /\ F64Low(x) = <<0, 0, 0, 0>>
    /\ \/ F64IsZero(x)
       \/ /\ F64Exp(x) - 1023 <= 30
          /\ F64Exp(x) - 1023 >= -7
          /\ F64Exp(x) # 0

\* 1 + ds for a digit string, with carry.
RECURSIVE Increment(_)
Increment(ds) ==
    IF ds = <<>> THEN <<1>>
    ELSE IF ds[Len(ds)] < 9
    THEN [ds EXCEPT ![Len(ds)] = @ + 1]
    ELSE Append(Increment(SubSeq(ds, 1, Len(ds) - 1)), 0)

\* The next k decimal digits of num / den (num < den), and what is left.
RECURSIVE FracDigits(_, _, _)
FracDigits(num, den, k) ==
    IF k = 0 THEN [ds |-> <<>>, rem |-> num]
    ELSE LET d == (num * 10) \div den
             r == FracDigits((num * 10) % den, den, k - 1)
         IN  [ds |-> <<d>> \o r.ds, rem |-> r.rem]

\* printf("%.7f") of a fixable double: seven fractional digits, the last
\* rounded to nearest, ties to even.
Fixed7(x) ==
    LET E == F64Exp(x) - 1023
        hidden == 1048576 + F64Top(x)
        k == 20 - E
        den == IF F64IsZero(x) \/ k <= 0 THEN 1 ELSE 2 ^ k
        int == IF F64IsZero(x) THEN 0
               ELSE IF k <= 0 THEN hidden * 2 ^ (-k)
               ELSE hidden \div den
        num == IF F64IsZero(x) \/ k <= 0 THEN 0 ELSE hidden % den
        fr == FracDigits(num, den, 7)
        ds == Digits(int) \o fr.ds
        up == \/ 2 * fr.rem > den
              \/ 2 * fr.rem = den /\ fr.ds[7] % 2 = 1
        all == IF up THEN Increment(ds) ELSE ds
        n == Len(all) - 7
    IN  (IF F64Sign(x) THEN <<45>> ELSE <<>>)
            \o Ascii(SubSeq(all, 1, n)) \o <<46>> \o Ascii(SubSeq(all, n + 1, n + 7))

\* ------------------------------------------------------------------------
\* Handler results and the stack macros (chunk.c 520-587)
\* ------------------------------------------------------------------------
Ok(m) == [res |-> "Ok", vm |-> m, out |-> <<>>]
Err(m) == [res |-> "Err", vm |-> m, out |-> <<>>]
\* A store outside the stack array or a read outside the module buffer.
Undefined(m) == [res |-> "Undefined", vm |-> m, out |-> <<>>]

Depth(m) == m.sp - 0

\* A store to stack slot `slot` (below STACK_MAX).
Store(stack, slot, v) ==
    IF slot + 1 <= Len(stack) THEN [stack EXCEPT ![slot + 1] = v]
    ELSE Append(stack, v)

RECURSIVE StoreN(_, _, _)
StoreN(stack, slot, arr) ==
    IF arr = <<>> THEN stack
    ELSE StoreN(Store(stack, slot, Head(arr)), slot + 1, Tail(arr))

\* readU8 / READ: the byte at ip, ip advanced by one.
readU8(m) ==
    IF 1 > m.end - m.ip
    THEN [res |-> "Err", vm |-> m, byte |-> 0]
    ELSE [res |-> "Ok", vm |-> [m EXCEPT !.ip = @ + 1], byte |-> code[m.ip + 1]]

POP(m) ==
    IF Depth(m) = 0
    THEN [res |-> "Err", vm |-> m, value |-> makeNil]
    ELSE [res |-> "Ok", vm |-> [m EXCEPT !.sp = @ - 1], value |-> m.stack[m.sp]]

POPN(m, n) ==
    IF Depth(m) <= n - 1
    THEN [res |-> "Err", vm |-> m, arr |-> <<>>]
    ELSE [res |-> "Ok", vm |-> [m EXCEPT !.sp = @ - n],
          arr |-> SubSeq(m.stack, m.sp - n + 1, m.sp)]

\* PUSH with the overflow check one slot early.
PUSH_mut(m, v) ==
    IF Depth(m) >= STACK_MAX - 1
    THEN Err(m)
    ELSE Ok([m EXCEPT !.stack = Store(@, m.sp, v), !.sp = @ + 1])

PUSH(m, v) ==
    IF Depth(m) = STACK_MAX
    THEN Err(m)
    ELSE Ok([m EXCEPT !.stack = Store(@, m.sp, v), !.sp = @ + 1])

\* PUSHN: n is the count as the C expression computes it; a negative n stands
\* for the size_t value 2^64 + n, for which (long)(STACK_MAX + (n)-1) is
\* STACK_MAX + n - 1 again.  When the check lets a copy through that does not
\* fit, memcpy stores outside vm->stack: for n < 0 the copy of about 2^64
\* bytes never completes, otherwise the slots past stack[STACK_MAX - 1] land
\* in the fields that follow the array and sp is advanced past its end.
PUSHN(m, arr, n) ==
    IF Depth(m) >= STACK_MAX + n - 1
    THEN Err(m)
    ELSE IF n < 0
         THEN Undefined(m)
         ELSE IF m.sp + n > STACK_MAX
              THEN Undefined([m EXCEPT !.sp = @ + n])
              ELSE Ok([m EXCEPT !.stack = StoreN(@, m.sp, arr), !.sp = @ + n])

\* PEEK: the slot index sp - offset - 1.
PEEK(m, offset) ==
    IF Depth(m) <= offset
    THEN [res |-> "Err", vm |-> m, slot |-> 0]
    ELSE [res |-> "Ok", vm |-> m, slot |-> m.sp - offset - 1]

\* ------------------------------------------------------------------------
\* Globals (chunk.c 479-518).  isSet is the set of indices whose flag is
\* true, data is defined on the indices that were written.
\* ------------------------------------------------------------------------
initGlobalArray == [isSet |-> {}, data |-> <<>>]

getGlobal(array, index) ==
    IF index >= GLOBAL_MAX THEN [res |-> "Err", value |-> makeNil]
    ELSE IF index \notin array.isSet THEN [res |-> "Err", value |-> makeNil]
    ELSE [res |-> "Ok", value |-> array.data[index]]

\* setGlobal refusing the last index.
setGlobal_mut(array, index, in) ==
    IF index >= GLOBAL_MAX - 1 THEN [res |-> "Err", array |-> array]
    ELSE [res |-> "Ok",
          array |-> [isSet |-> array.isSet \cup {index},
                     data |-> [i \in (DOMAIN array.data) \cup {index} |->
                                 IF i = index THEN in ELSE array.data[i]]]]

setGlobal(array, index, in) ==
    IF index >= GLOBAL_MAX THEN [res |-> "Err", array |-> array]
    ELSE [res |-> "Ok",
          array |-> [isSet |-> array.isSet \cup {index},
                     data |-> [i \in (DOMAIN array.data) \cup {index} |->
                                 IF i = index THEN in ELSE array.data[i]]]]

\* ------------------------------------------------------------------------
\* Handlers (chunk.c 665-1492).  Each takes the VM as runVM hands it over
\* (ip already past the opcode byte) and yields the Result, the VM it
\* leaves and the lines it printed.
\* ------------------------------------------------------------------------
op_pushConst(m0) ==
    LET rd == readU8(m0) IN
    IF rd.res # "Ok" THEN Err(rd.vm)
    ELSE IF rd.byte >= rd.vm.constantCount THEN Err(rd.vm)
    ELSE PUSH(rd.vm, rd.vm.constants[rd.byte + 1])

op_pushTrue(m0) == PUSH(m0, makeBool(TRUE))

op_pushFalse(m0) == PUSH(m0, makeBool(FALSE))

op_pushNil(m0) == PUSH(m0, makeNil)

op_setGlobal(m0) ==
    LET rd == readU8(m0) IN
    IF rd.res # "Ok" THEN Err(rd.vm) ELSE
    LET p == POP(rd.vm) IN
    IF p.res # "Ok" THEN Err(p.vm) ELSE
    LET g == setGlobal(p.vm.globals, rd.byte, p.value) IN
    IF g.res # "Ok" THEN Err(p.vm)
    ELSE Ok([p.vm EXCEPT !.globals = g.array])

\* op_pushGlobal pushing a fresh record with the fields of the struct held
\* by the global instead of the reference to it.
op_pushGlobal_mut(m0) ==
    LET rd == readU8(m0) IN
    IF rd.res # "Ok" THEN Err(rd.vm) ELSE
    LET g == getGlobal(rd.vm.globals, rd.byte) IN
    IF g.res # "Ok" THEN Err(rd.vm)
    ELSE IF IsObjOfType(rd.vm, g.value, OBJ_STRUCT)
         THEN LET r == makeObject(rd.vm, rd.vm.objects[g.value.as[1]])
              IN  PUSH(r.vm, ObjRef(r.id))
         ELSE PUSH(rd.vm, g.value)

op_pushGlobal(m0) ==
    LET rd == readU8(m0) IN
    IF rd.res # "Ok" THEN Err(rd.vm) ELSE
    LET g == getGlobal(rd.vm.globals, rd.byte) IN
    IF g.res # "Ok" THEN Err(rd.vm)
    ELSE PUSH(rd.vm, g.value)

\* op_setLocal with the range test made before the pop.
op_setLocal_mut(m0) ==
    LET rd == readU8(m0) IN
    IF rd.res # "Ok" THEN Err(rd.vm) ELSE
    LET p == POP(rd.vm) IN
    IF p.res # "Ok" THEN Err(p.vm) ELSE
    IF rd.byte >= rd.vm.sp - rd.vm.fp THEN Err(p.vm)
    ELSE LET slot == p.vm.fp + rd.byte
             value == [p.value EXCEPT
                         !.references = p.vm.stack[slot + 1].references]
         IN  Ok([p.vm EXCEPT !.stack[slot + 1] = value])

op_setLocal(m0) ==
    LET rd == readU8(m0) IN
    IF rd.res # "Ok" THEN Err(rd.vm) ELSE
    LET p == POP(rd.vm) IN
    IF p.res # "Ok" THEN Err(p.vm) ELSE
    IF rd.byte >= p.vm.sp - p.vm.fp THEN Err(p.vm)
    ELSE LET slot == p.vm.fp + rd.byte
             value == [p.value EXCEPT
                         !.references = p.vm.stack[slot + 1].references]
         IN  Ok([p.vm EXCEPT !.stack[slot + 1] = value])

op_pushLocal(m0) ==
    LET rd == readU8(m0) IN
    IF rd.res # "Ok" THEN Err(rd.vm)
    ELSE IF rd.byte >= rd.vm.sp - rd.vm.fp THEN Err(rd.vm)
    ELSE PUSH(rd.vm, rd.vm.stack[rd.vm.fp + rd.byte + 1])

op_print(m0) ==
    LET p == POP(m0) IN
    IF p.res # "Ok" THEN Err(p.vm)
    ELSE IF ~IsObjOfType(p.vm, p.value, OBJ_STRING) THEN Err(p.vm)
    ELSE [res |-> "Ok", vm |-> p.vm,
          out |-> <<p.vm.objects[p.value.as[1]].data>>]

\* The while loop of op_pop: close every upvalue on the chain.
RECURSIVE CloseChain(_, _)
CloseChain(m, id) ==
    IF id = NULL THEN m
    ELSE CloseChain(closeUpvalue(m, id), m.objects[id].next)

op_pop(m0) ==
    LET p == POP(m0) IN
    IF p.res # "Ok" THEN Err(p.vm)
    ELSE Ok(CloseChain(p.vm, p.value.references))

op_squash(m0) ==
    LET p == POP(m0) IN
    IF p.res # "Ok" THEN Err(p.vm) ELSE
    LET k == PEEK(p.vm, 0) IN
    IF k.res # "Ok" THEN Err(k.vm)
    ELSE Ok([k.vm EXCEPT !.stack[k.slot + 1] = p.value])

\* op_jump refusing a landing on end.
op_jump_mut(m0) ==
    LET rd == readU8(m0) IN
    IF rd.res # "Ok" THEN Err(rd.vm) ELSE
    LET m == [rd.vm EXCEPT !.ip = @ + rd.byte] IN
    IF m.ip >= m.end THEN Err(m) ELSE Ok(m)

op_jump(m0) ==
    LET rd == readU8(m0) IN
    IF rd.res # "Ok" THEN Err(rd.vm) ELSE
    LET m == [rd.vm EXCEPT !.ip = @ + rd.byte] IN
    IF m.ip > m.end THEN Err(m) ELSE Ok(m)

\* What reading member b of the payload union gives: the stored bool of a
\* Bool; for an Int or a Num the low byte of the payload, which is false for
\* 0 and true for 1, while any other byte is not a valid bool object and
\* !cond.as.b may come out either way; for Nil (payload never written) and
\* for pointers (low address byte) either outcome.
AsBool(v) ==
    IF v.type = VAL_BOOL THEN {v.as[1] # 0}
    ELSE IF v.type \in {VAL_INT, VAL_NUM} THEN
        IF v.as[1] % 256 = 0 THEN {FALSE}
        ELSE IF v.as[1] % 256 = 1 THEN {TRUE}
        ELSE BOOLEAN
    ELSE BOOLEAN

\* b is the outcome of reading cond.as.b.
op_jumpIfFalse(m0, b) ==
    LET rd == readU8(m0) IN
    IF rd.res # "Ok" THEN Err(rd.vm) ELSE
    LET p == POP(rd.vm) IN
    IF p.res # "Ok" THEN Err(p.vm) ELSE
    IF ~b
    THEN LET m == [p.vm EXCEPT !.ip = @ + rd.byte] IN
         IF m.ip > m.end THEN Err(m) ELSE Ok(m)
    ELSE Ok(p.vm)

\* The condition value op_jumpIfFalse pops, nil when it fails before.
JumpCond(m0) ==
    LET rd == readU8(m0) IN
    IF rd.res # "Ok" THEN makeBool(TRUE) ELSE
    LET p == POP(rd.vm) IN
    IF p.res # "Ok" THEN makeBool(TRUE) ELSE p.value

\* op_loop stepping back one byte too far.
op_loop_mut(m0) ==
    LET rd == readU8(m0) IN
    IF rd.res # "Ok" THEN Err(rd.vm) ELSE
    LET m == [rd.vm EXCEPT !.ip = @ - rd.byte - 1] IN
    IF m.ip < m.start THEN Err(m) ELSE Ok(m)

op_loop(m0) ==
    LET rd == readU8(m0) IN
    IF rd.res # "Ok" THEN Err(rd.vm) ELSE
    LET m == [rd.vm EXCEPT !.ip = @ - rd.byte] IN
    IF m.ip < m.start THEN Err(m) ELSE Ok(m)

\* op_function measuring the skip from the opcode instead of from the byte
\* after the operand.
op_function_mut(m0) ==
    LET rd == readU8(m0) IN
    IF rd.res # "Ok" THEN Err(rd.vm) ELSE
    LET ps == PUSH(rd.vm, makeIP(rd.vm.ip)) IN
    IF ps.res # "Ok" THEN ps
    ELSE Ok([ps.vm EXCEPT !.ip = @ + rd.byte - 2])

op_function(m0) ==
    LET rd == readU8(m0) IN
    IF rd.res # "Ok" THEN Err(rd.vm) ELSE
    LET ps == PUSH(rd.vm, makeIP(rd.vm.ip)) IN
    IF ps.res # "Ok" THEN ps
    ELSE Ok([ps.vm EXCEPT !.ip = @ + rd.byte])

op_call(m0) ==
    LET rd == readU8(m0) IN
    IF rd.res # "Ok" THEN Err(rd.vm) ELSE
    LET paramCount == rd.byte
        f == POP(rd.vm) IN
    IF f.res # "Ok" THEN Err(f.vm) ELSE
    IF f.value.type # VAL_IP THEN Err(f.vm) ELSE
    LET params == POPN(f.vm, paramCount) IN
    IF params.res # "Ok" THEN Err(params.vm) ELSE
    LET p1 == PUSH(params.vm, makeIP(params.vm.ip)) IN
    IF p1.res # "Ok" THEN p1 ELSE
    LET p2 == PUSH(p1.vm, makeFP(p1.vm.fp)) IN
    IF p2.res # "Ok" THEN p2 ELSE
    LET m == [p2.vm EXCEPT !.fp = p2.vm.sp, !.ip = f.value.as[1]] IN
    PUSHN(m, params.arr, paramCount)

op_loadIp(m0) ==
    LET p == POP(m0) IN
    IF p.res # "Ok" THEN Err(p.vm)
    ELSE IF p.value.type # VAL_IP THEN Err(p.vm)
    ELSE Ok([p.vm EXCEPT !.ip = p.value.as[1]])

\* op_loadFp that pops the saved frame pointer without restoring it.
op_loadFp_mut(m0) ==
    LET p == POP(m0) IN
    IF p.res # "Ok" THEN Err(p.vm)
    ELSE IF p.value.type # VAL_FP THEN Err(p.vm)
    ELSE Ok(p.vm)

op_loadFp(m0) ==
    LET p == POP(m0) IN
    IF p.res # "Ok" THEN Err(p.vm)
    ELSE IF p.value.type # VAL_FP THEN Err(p.vm)
    ELSE Ok([p.vm EXCEPT !.fp = p.value.as[1]])

op_setReturn(m0) ==
    LET p == POP(m0) IN
    IF p.res # "Ok" THEN Err(p.vm)
    ELSE Ok([p.vm EXCEPT !.returnStore = p.value])

op_pushReturn(m0) == PUSH(m0, m0.returnStore)

op_struct(m0) ==
    LET rd == readU8(m0) IN
    IF rd.res # "Ok" THEN Err(rd.vm) ELSE
    LET fieldCount == rd.byte
        s == makeStruct(rd.vm, fieldCount)
        id == s.value.as[1]
        pn == POPN(s.vm, fieldCount) IN
    IF pn.res # "Ok" THEN Err(pn.vm)
    ELSE PUSH([pn.vm EXCEPT !.objects[id].fields = pn.arr], s.value)

op_destruct(m0) ==
    LET rd == readU8(m0) IN
    IF rd.res # "Ok" THEN Err(rd.vm) ELSE
    LET dropCount == rd.byte
        p == POP(rd.vm) IN
    IF p.res # "Ok" THEN Err(p.vm) ELSE
    IF ~IsObjOfType(p.vm, p.value, OBJ_STRUCT) THEN Err(p.vm) ELSE
    LET structObj == p.vm.objects[p.value.as[1]] IN
    PUSHN(p.vm, SubSeq(structObj.fields, dropCount + 1, structObj.fieldCount),
          structObj.fieldCount - dropCount)

op_getField(m0) ==
    LET rd == readU8(m0) IN
    IF rd.res # "Ok" THEN Err(rd.vm) ELSE
    LET p == POP(rd.vm) IN
    IF p.res # "Ok" THEN Err(p.vm) ELSE
    IF ~IsObjOfType(p.vm, p.value, OBJ_STRUCT) THEN Err(p.vm) ELSE
    LET structObj == p.vm.objects[p.value.as[1]] IN
    IF rd.byte >= structObj.fieldCount THEN Err(p.vm)
    ELSE PUSH(p.vm, structObj.fields[rd.byte + 1])

\* op_extractField taking the struct off the stack.
op_extractField_mut(m0) ==
    LET rd1 == readU8(m0) IN
    IF rd1.res # "Ok" THEN Err(rd1.vm) ELSE
    LET rd2 == readU8(rd1.vm) IN
    IF rd2.res # "Ok" THEN Err(rd2.vm) ELSE
    LET k == PEEK(rd2.vm, rd1.byte) IN
    IF k.res # "Ok" THEN Err(k.vm) ELSE
    LET structValue == k.vm.stack[k.slot + 1] IN
    IF ~IsObjOfType(k.vm, structValue, OBJ_STRUCT) THEN Err(k.vm) ELSE
    LET structObj == k.vm.objects[structValue.as[1]] IN
    IF rd2.byte >= structObj.fieldCount THEN Err(k.vm)
    ELSE Ok([k.vm EXCEPT !.stack[k.slot + 1] = structObj.fields[rd2.byte + 1]])

op_extractField(m0) ==
    LET rd1 == readU8(m0) IN
    IF rd1.res # "Ok" THEN Err(rd1.vm) ELSE
    LET rd2 == readU8(rd1.vm) IN
    IF rd2.res # "Ok" THEN Err(rd2.vm) ELSE
    LET k == PEEK(rd2.vm, rd1.byte) IN
    IF k.res # "Ok" THEN Err(k.vm) ELSE
    LET structValue == k.vm.stack[k.slot + 1] IN
    IF ~IsObjOfType(k.vm, structValue, OBJ_STRUCT) THEN Err(k.vm) ELSE
    LET structObj == k.vm.objects[structValue.as[1]] IN
    IF rd2.byte >= structObj.fieldCount THEN Err(k.vm)
    ELSE PUSH(k.vm, structObj.fields[rd2.byte + 1])

\* op_setField storing into the field after the one addressed.
op_setField_mut(m0) ==
    LET rd == readU8(m0) IN
    IF rd.res # "Ok" THEN Err(rd.vm) ELSE
    LET p == POP(rd.vm) IN
    IF p.res # "Ok" THEN Err(p.vm) ELSE
    LET k == PEEK(p.vm, 0) IN
    IF k.res # "Ok" THEN Err(k.vm) ELSE
    LET structValue == k.vm.stack[k.slot + 1] IN
    IF ~IsObjOfType(k.vm, structValue, OBJ_STRUCT) THEN Err(k.vm) ELSE
    LET id == structValue.as[1] IN
    IF rd.byte + 1 >= k.vm.objects[id].fieldCount THEN Err(k.vm)
    ELSE Ok([k.vm EXCEPT !.objects[id].fields[rd.byte + 2] = p.value])

op_setField(m0) ==
    LET rd == readU8(m0) IN
    IF rd.res # "Ok" THEN Err(rd.vm) ELSE
    LET p == POP(rd.vm) IN
    IF p.res # "Ok" THEN Err(p.vm) ELSE
    LET k == PEEK(p.vm, 0) IN
    IF k.res # "Ok" THEN Err(k.vm) ELSE
    LET structValue == k.vm.stack[k.slot + 1] IN
    IF ~IsObjOfType(k.vm, structValue, OBJ_STRUCT) THEN Err(k.vm) ELSE
    LET id == structValue.as[1] IN
    IF rd.byte >= k.vm.objects[id].fieldCount THEN Err(k.vm)
    ELSE Ok([k.vm EXCEPT !.objects[id].fields[rd.byte + 1] = p.value])

op_insertField(m0) ==
    LET rd1 == readU8(m0) IN
    IF rd1.res # "Ok" THEN Err(rd1.vm) ELSE
    LET rd2 == readU8(rd1.vm) IN
    IF rd2.res # "Ok" THEN Err(rd2.vm) ELSE
    LET p == POP(rd2.vm) IN
    IF p.res # "Ok" THEN Err(p.vm) ELSE
    LET k == PEEK(p.vm, rd1.byte) IN
    IF k.res # "Ok" THEN Err(k.vm) ELSE
    LET structValue == k.vm.stack[k.slot + 1] IN
    IF ~IsObjOfType(k.vm, structValue, OBJ_STRUCT) THEN Err(k.vm) ELSE
    LET id == structValue.as[1] IN
    IF rd2.byte >= k.vm.objects[id].fieldCount THEN Err(k.vm)
    ELSE Ok([k.vm EXCEPT !.objects[id].fields[rd2.byte + 1] = p.value])

op_refLocal(m0) ==
    LET rd == readU8(m0) IN
    IF rd.res # "Ok" THEN Err(rd.vm)
    ELSE IF rd.byte >= rd.vm.sp - rd.vm.fp THEN Err(rd.vm)
    ELSE LET u == makeUpvalue(rd.vm, rd.vm.fp + rd.byte)
         IN  PUSH(u.vm, u.value)

op_deref(m0) ==
    LET k == PEEK(m0, 0) IN
    IF k.res # "Ok" THEN Err(k.vm) ELSE
    LET upvalue == k.vm.stack[k.slot + 1] IN
    IF ~IsObjOfType(k.vm, upvalue, OBJ_UPVALUE) THEN Err(k.vm)
    ELSE Ok([k.vm EXCEPT
               !.stack[k.slot + 1] = UpvalueTarget(k.vm, upvalue.as[1])])

\* op_setRef storing into the upvalue's own storage even while it is open.
op_setRef_mut(m0) ==
    LET pu == POP(m0) IN
    IF pu.res # "Ok" THEN Err(pu.vm) ELSE
    LET pv == POP(pu.vm) IN
    IF pv.res # "Ok" THEN Err(pv.vm) ELSE
    IF ~IsObjOfType(pv.vm, pu.value, OBJ_UPVALUE) THEN Err(pv.vm) ELSE
    LET id == pu.value.as[1] IN
    Ok([pv.vm EXCEPT !.objects[id].closed = pv.value])

op_setRef(m0) ==
    LET pu == POP(m0) IN
    IF pu.res # "Ok" THEN Err(pu.vm) ELSE
    LET pv == POP(pu.vm) IN
    IF pv.res # "Ok" THEN Err(pv.vm) ELSE
    IF ~IsObjOfType(pv.vm, pu.value, OBJ_UPVALUE) THEN Err(pv.vm) ELSE
    LET id == pu.value.as[1] IN
    IF pv.vm.objects[id].open
    THEN Ok([pv.vm EXCEPT !.stack[pv.vm.objects[id].ptr + 1] = pv.value])
    ELSE Ok([pv.vm EXCEPT !.objects[id].closed = pv.value])

op_isValType(m0) ==
    LET rd == readU8(m0) IN
    IF rd.res # "Ok" THEN Err(rd.vm) ELSE
    LET k == PEEK(rd.vm, 0) IN
    IF k.res # "Ok" THEN Err(k.vm)
    ELSE PUSH(k.vm, makeBool(k.vm.stack[k.slot + 1].type = rd.byte))

\* value->as.obj is read whatever the tag is.  For a value that is not an
\* Obj the bytes of another payload member (or bytes nothing has written)
\* are followed as a pointer: the read faults, or finds some byte that is or
\* is not obj_type.
op_isObjType(m0) ==
    LET rd == readU8(m0) IN
    IF rd.res # "Ok" THEN {Err(rd.vm)} ELSE
    LET k == PEEK(rd.vm, 0) IN
    IF k.res # "Ok" THEN {Err(k.vm)} ELSE
    LET value == k.vm.stack[k.slot + 1] IN
    IF value.type = VAL_OBJ
    THEN {PUSH(k.vm, makeBool(k.vm.objects[value.as[1]].type = rd.byte))}
    ELSE {Undefined(k.vm)} \cup {PUSH(k.vm, makeBool(x)) : x \in BOOLEAN}

\* A handler meets a double whose arithmetic or text is not computed here.
NotModelled(m) == [res |-> "NotComputed", vm |-> m, out |-> <<>>]

\* The top slot replaced by v.
Replace(m, slot, v) == Ok([m EXCEPT !.stack[slot + 1] = v])

\* (int)value->as.f64 is undefined for a double outside int32_t: each
\* element of the set is one outcome.
op_int(m0) ==
    LET k == PEEK(m0, 0) IN
    IF k.res # "Ok" THEN {Err(k.vm)} ELSE
    LET value == k.vm.stack[k.slot + 1] IN
    IF value.type = VAL_BOOL
    THEN {Replace(k.vm, k.slot, makeInt(IF value.as[1] # 0 THEN 1 ELSE 0))}
    ELSE IF value.type = VAL_INT THEN {Ok(k.vm)}
    ELSE IF value.type = VAL_NIL THEN {Replace(k.vm, k.slot, makeInt(0))}
    ELSE IF value.type = VAL_NUM
    THEN {Replace(k.vm, k.slot, makeInt(n)) : n \in F64ToS32(value.as)}
    ELSE {Err(k.vm)}

op_bool(m0) ==
    LET k == PEEK(m0, 0) IN
    IF k.res # "Ok" THEN Err(k.vm) ELSE
    LET value == k.vm.stack[k.slot + 1] IN
    IF value.type = VAL_BOOL THEN Ok(k.vm)
    ELSE IF value.type = VAL_INT
    THEN Replace(k.vm, k.slot, makeBool(value.as[1] # 0))
    ELSE IF value.type = VAL_NIL THEN Replace(k.vm, k.slot, makeBool(FALSE))
    ELSE IF value.type = VAL_NUM
    THEN IF F64Less(F64Zero, value.as)
         THEN Replace(k.vm, k.slot, makeBool(F64Less(value.as, NUM_PRECISION)))
         ELSE Replace(k.vm, k.slot,
                      makeBool(F64Less(F64Neg(value.as), NUM_PRECISION)))
    ELSE Err(k.vm)

\* op_num turning nil into 1.0.
op_num_mut(m0) ==
    LET k == PEEK(m0, 0) IN
    IF k.res # "Ok" THEN Err(k.vm) ELSE
    LET value == k.vm.stack[k.slot + 1] IN
    IF value.type = VAL_BOOL
    THEN Replace(k.vm, k.slot,
                 makeNum(IF value.as[1] # 0 THEN F64One ELSE F64Zero))
    ELSE IF value.type = VAL_INT
    THEN Replace(k.vm, k.slot, makeNum(S32ToF64(value.as[1])))
    ELSE IF value.type = VAL_NIL THEN Replace(k.vm, k.slot, makeNum(F64One))
    ELSE IF value.type = VAL_NUM THEN Ok(k.vm)
    ELSE Err(k.vm)

op_num(m0) ==
    LET k == PEEK(m0, 0) IN
    IF k.res # "Ok" THEN Err(k.vm) ELSE
    LET value == k.vm.stack[k.slot + 1] IN
    IF value.type = VAL_BOOL
    THEN Replace(k.vm, k.slot,
                 makeNum(IF value.as[1] # 0 THEN F64One ELSE F64Zero))
    ELSE IF value.type = VAL_INT
    THEN Replace(k.vm, k.slot, makeNum(S32ToF64(value.as[1])))
    ELSE IF value.type = VAL_NIL THEN Replace(k.vm, k.slot, makeNum(F64Zero))
    ELSE IF value.type = VAL_NUM THEN Ok(k.vm)
    ELSE Err(k.vm)

\* stringifyValue: "true", "false", "nil", the decimal digits of an Int,
\* a Num with seven fractional digits; pointer values are refused.
stringifyValue(m, input) ==
    IF input.type = VAL_BOOL
    THEN LET str == makeString(m, IF input.as[1] # 0
                                  THEN <<116, 114, 117, 101>>
                                  ELSE <<102, 97, 108, 115, 101>>)
         IN  [res |-> "Ok", vm |-> str.vm, output |-> str.value]
    ELSE IF input.type = VAL_NIL
    THEN LET str == makeString(m, <<110, 105, 108>>)
         IN  [res |-> "Ok", vm |-> str.vm, output |-> str.value]
    ELSE IF input.type = VAL_INT
    THEN LET str == makeString(m, Decimal(input.as[1]))
         IN  [res |-> "Ok", vm |-> str.vm, output |-> str.value]
    ELSE IF input.type = VAL_NUM
    THEN IF F64Fixable(input.as)
         THEN LET str == makeString(m, Fixed7(input.as))
              IN  [res |-> "Ok", vm |-> str.vm, output |-> str.value]
         ELSE [res |-> "NotComputed", vm |-> m, output |-> input]
    ELSE [res |-> "Err", vm |-> m, output |-> input]

op_str(m0) ==
    LET k == PEEK(m0, 0) IN
    IF k.res # "Ok" THEN Err(k.vm) ELSE
    LET r == stringifyValue(k.vm, k.vm.stack[k.slot + 1]) IN
    IF r.res = "Ok" THEN Replace(r.vm, k.slot, r.output)
    ELSE [res |-> r.res, vm |-> r.vm, out |-> <<>>]

\* The processor times OP_CLOCK reads in the runs explored: 0.0 and 0.5.
ClockValues == {F64Zero, <<0, 0, 0, 0, 0, 0, 224, 63>>}

\* clock() / CLOCKS_PER_SEC: the processor time used so far, t.
op_clock(m0, t) == PUSH(m0, makeNum(t))

\* ------------------------------------------------------------------------
\* Arithmetic and comparison (chunk.c 645-663, 1006-1055).  The handlers
\* read the payload member they need whatever the tag is.
\* ------------------------------------------------------------------------
\* Payload bytes no constructor has written: representative upper words of
\* an eight-byte payload (zero, the upper word of 1.0, a NaN).
HighWords == {<<0, 0, 0, 0>>, <<0, 0, 240, 63>>, <<0, 0, 248, 127>>}

\* What reading member s32 of the payload gives: the stored int of an Int,
\* the low word of a Num, a Bool's byte under three unwritten bytes, and
\* for Nil and pointers any word.
AsS32(v) ==
    IF v.type = VAL_INT THEN {v.as[1]}
    ELSE IF v.type = VAL_NUM THEN {BytesS32(SubSeq(v.as, 1, 4))}
    ELSE IF v.type = VAL_BOOL THEN {v.as[1], v.as[1] - 256}
    ELSE Indeterminate32

\* What reading member f64 of the payload gives: the stored double of a Num,
\* otherwise the written bytes under an unwritten upper word.
AsF64(v) ==
    IF v.type = VAL_NUM THEN {v.as}
    ELSE IF v.type = VAL_INT THEN {S32Bytes(v.as[1]) \o h : h \in HighWords}
    ELSE IF v.type = VAL_BOOL THEN {<<v.as[1], 0, 0, 0>> \o h : h \in HighWords}
    ELSE {<<0, 0, 0, 0>> \o h : h \in HighWords}

\* Outcomes of the expression of a UNARY_OP / BINARY_OP: a value, a trap
\* that kills the process, or a double that is not computed here.
Val(v) == [res |-> "Ok", value |-> v]
Trap == [res |-> "Undefined", value |-> makeNil]
Num(r) == IF r.ok THEN Val(makeNum(r.bits))
          ELSE [res |-> "NotComputed", value |-> makeNil]

Finish(m, slot, r) ==
    IF r.res = "Ok" THEN Replace(m, slot, r.value)
    ELSE [res |-> r.res, vm |-> m, out |-> <<>>]

\* UNARY_OP up to the evaluation of op: the operand a and its slot.
UNARY_OP(m0) ==
    LET k == PEEK(m0, 0) IN
    IF k.res # "Ok" THEN [res |-> "Err", vm |-> k.vm, slot |-> 0, a |-> makeNil]
    ELSE [res |-> "Ok", vm |-> k.vm, slot |-> k.slot, a |-> k.vm.stack[k.slot + 1]]

\* BINARY_OP taking the popped value as a and the peeked one as b.
BINARY_OP_mut(m0) ==
    LET p == POP(m0) IN
    IF p.res # "Ok"
    THEN [res |-> "Err", vm |-> p.vm, slot |-> 0, a |-> makeNil, b |-> makeNil]
    ELSE LET k == PEEK(p.vm, 0) IN
         IF k.res # "Ok"
         THEN [res |-> "Err", vm |-> k.vm, slot |-> 0, a |-> makeNil, b |-> makeNil]
         ELSE [res |-> "Ok", vm |-> k.vm, slot |-> k.slot,
               a |-> p.value, b |-> k.vm.stack[k.slot + 1]]

\* BINARY_OP up to the evaluation of op: second is popped, first is peeked;
\* a = *first, b = second, and the result goes to the slot of first.
BINARY_OP(m0) ==
    LET p == POP(m0) IN
    IF p.res # "Ok"
    THEN [res |-> "Err", vm |-> p.vm, slot |-> 0, a |-> makeNil, b |-> makeNil]
    ELSE LET k == PEEK(p.vm, 0) IN
         IF k.res # "Ok"
         THEN [res |-> "Err", vm |-> k.vm, slot |-> 0, a |-> makeNil, b |-> makeNil]
         ELSE [res |-> "Ok", vm |-> k.vm, slot |-> k.slot,
               a |-> k.vm.stack[k.slot + 1], b |-> p.value]

\* *value = op; return RESULT_OK; for each outcome of op.
Assign(f, outcomes) ==
    IF f.res # "Ok" THEN {Err(f.vm)}
    ELSE {Finish(f.vm, f.slot, r) : r \in outcomes}

\* The int32_t expressions -a, a + b, a - b, a * b are evaluated in the
\* signed type: a result outside [INT_MIN, INT_MAX] is an overflow, which C
\* leaves undefined.  A build yields the wrapped value or traps.
AddOverflows(x, y) ==
    \/ x >= 0 /\ y >= 0 /\ x > INT_MAX - y
    \/ x < 0 /\ y < 0 /\ x < INT_MIN - y

SubOverflows(x, y) ==
    IF y = INT_MIN THEN x >= 0 ELSE AddOverflows(x, -y)

MulOverflows(x, y) ==
    IF x = 0 \/ y = 0 THEN FALSE
    ELSE IF x = INT_MIN THEN y # 1
    ELSE IF y = INT_MIN THEN x # 1
    ELSE LET ax == IF x < 0 THEN -x ELSE x
             ay == IF y < 0 THEN -y ELSE y
         IN  IF ax <= INT_MAX \div ay THEN FALSE
             ELSE ~(/\ (x < 0) # (y < 0)
                    /\ INT_MAX % ay = ay - 1
                    /\ ax = INT_MAX \div ay + 1)

SignedResult(overflows, wrapped) ==
    IF overflows THEN {Val(makeInt(wrapped)), Trap} ELSE {Val(makeInt(wrapped))}

intNeg(a) == UNION {SignedResult(x = INT_MIN, NegS32(x)) : x \in AsS32(a)}
numNeg(a) == {Val(makeNum(F64Neg(x))) : x \in AsF64(a)}
not(a) == {Val(makeBool(~x)) : x \in AsBool(a)}

intAdd(a, b) ==
    UNION {SignedResult(AddOverflows(x, y), AddS32(x, y)) :
              x \in AsS32(a), y \in AsS32(b)}
numAdd(a, b) == {Num(F64Add(x, y)) : x \in AsF64(a), y \in AsF64(b)}
intSub(a, b) ==
    UNION {SignedResult(SubOverflows(x, y), SubS32(x, y)) :
              x \in AsS32(a), y \in AsS32(b)}
numSub(a, b) == {Num(F64Sub(x, y)) : x \in AsF64(a), y \in AsF64(b)}
intMul(a, b) ==
    UNION {SignedResult(MulOverflows(x, y), MulS32(x, y)) :
              x \in AsS32(a), y \in AsS32(b)}
numMul(a, b) == {Num(F64Mul(x, y)) : x \in AsF64(a), y \in AsF64(b)}
intDiv(a, b) ==
    {IF DivTraps(x, y) THEN Trap ELSE Val(makeInt(DivS32(x, y))) :
        x \in AsS32(a), y \in AsS32(b)}
numDiv(a, b) == {Num(F64Div(x, y)) : x \in AsF64(a), y \in AsF64(b)}

intLess(a, b) == {Val(makeBool(x < y)) : x \in AsS32(a), y \in AsS32(b)}
intGreater(a, b) == {Val(makeBool(x > y)) : x \in AsS32(a), y \in AsS32(b)}

\* 2 * NUM_PRECISION.
TwicePrecision == <<72, 175, 188, 154, 242, 215, 138, 62>>

\* x < y - NUM_PRECISION.  The difference y - NUM_PRECISION is rounded; the
\* comparison is decided from the exact gap d = y - x where the rounding
\* cannot matter: false when x >= y or d <= NUM_PRECISION, true when
\* d > 2 * NUM_PRECISION and both are below 2^29 in magnitude.
LessByPrecision(x, y) ==
    IF F64IsNaN(x) \/ F64IsNaN(y) THEN Val(makeBool(FALSE))
    ELSE IF ~F64Less(x, y) THEN Val(makeBool(FALSE))
    ELSE IF F64IsInf(x) \/ F64IsInf(y) THEN Val(makeBool(TRUE))
    ELSE LET d == F64Sub(y, x) IN
         IF ~d.ok THEN [res |-> "NotComputed", value |-> makeNil]
         ELSE IF ~MagLess(NUM_PRECISION, d.bits) THEN Val(makeBool(FALSE))
         ELSE IF MagLess(TwicePrecision, d.bits)
                 /\ F64Exp(x) < 1023 + 29 /\ F64Exp(y) < 1023 + 29
         THEN Val(makeBool(TRUE))
         ELSE [res |-> "NotComputed", value |-> makeNil]

numLess(a, b) == {LessByPrecision(x, y) : x \in AsF64(a), y \in AsF64(b)}

\* x > y + NUM_PRECISION is -x < -y - NUM_PRECISION.
numGreater(a, b) ==
    {LessByPrecision(F64Neg(x), F64Neg(y)) : x \in AsF64(a), y \in AsF64(b)}

op_intNeg(m0) == LET f == UNARY_OP(m0) IN Assign(f, intNeg(f.a))
op_numNeg(m0) == LET f == UNARY_OP(m0) IN Assign(f, numNeg(f.a))
op_intAdd(m0) == LET f == BINARY_OP(m0) IN Assign(f, intAdd(f.a, f.b))
op_numAdd(m0) == LET f == BINARY_OP(m0) IN Assign(f, numAdd(f.a, f.b))
op_intSub(m0) == LET f == BINARY_OP(m0) IN Assign(f, intSub(f.a, f.b))
op_numSub(m0) == LET f == BINARY_OP(m0) IN Assign(f, numSub(f.a, f.b))
op_intMul(m0) == LET f == BINARY_OP(m0) IN Assign(f, intMul(f.a, f.b))
op_numMul(m0) == LET f == BINARY_OP(m0) IN Assign(f, numMul(f.a, f.b))
op_intDiv(m0) == LET f == BINARY_OP(m0) IN Assign(f, intDiv(f.a, f.b))
op_numDiv(m0) == LET f == BINARY_OP(m0) IN Assign(f, numDiv(f.a, f.b))
op_not(m0) == LET f == UNARY_OP(m0) IN Assign(f, not(f.a))
op_intLess(m0) == LET f == BINARY_OP(m0) IN Assign(f, intLess(f.a, f.b))
op_numLess(m0) == LET f == BINARY_OP(m0) IN Assign(f, numLess(f.a, f.b))
op_intGreater(m0) == LET f == BINARY_OP(m0) IN Assign(f, intGreater(f.a, f.b))
op_numGreater(m0) == LET f == BINARY_OP(m0) IN Assign(f, numGreater(f.a, f.b))

\* concatStrings: a new string holding the bytes of a, then those of b.
concatStrings(m, a, b) == makeString(m, a.data \o b.data)

\* op_strCat testing only the popped operand.
op_strCat_mut(m0) ==
    LET p == POP(m0) IN
    IF p.res # "Ok" THEN Err(p.vm) ELSE
    LET k == PEEK(p.vm, 0) IN
    IF k.res # "Ok" THEN Err(k.vm) ELSE
    LET a == k.vm.stack[k.slot + 1]
        b == p.value IN
    IF ~IsObjOfType(k.vm, b, OBJ_STRING) THEN Err(k.vm)
    ELSE IF a.type # VAL_OBJ THEN Err(k.vm)
    ELSE LET str == concatStrings(k.vm, [data |-> <<>>], k.vm.objects[b.as[1]])
         IN  Replace(str.vm, k.slot, str.value)

op_strCat(m0) ==
    LET p == POP(m0) IN
    IF p.res # "Ok" THEN Err(p.vm) ELSE
    LET k == PEEK(p.vm, 0) IN
    IF k.res # "Ok" THEN Err(k.vm) ELSE
    LET a == k.vm.stack[k.slot + 1]
        b == p.value IN
    IF ~IsObjOfType(k.vm, b, OBJ_STRING) THEN Err(k.vm)
    ELSE IF ~IsObjOfType(k.vm, a, OBJ_STRING) THEN Err(k.vm)
    ELSE LET str == concatStrings(k.vm, k.vm.objects[a.as[1]],
                                  k.vm.objects[b.as[1]])
         IN  Replace(str.vm, k.slot, str.value)

\* valuesEqual: values of different tags are unequal; Bool, Nil and Int
\* compare by value, Num by absolute difference below NUM_PRECISION, Strings
\* by their bytes, other objects by identity.  Nothing is laid down for IP
\* and FP: either answer.
valuesEqual(m, a, b) ==
    IF a.type # b.type THEN {Val(makeBool(FALSE))}
    ELSE IF a.type = VAL_NIL THEN {Val(makeBool(TRUE))}
    ELSE IF a.type \in {VAL_BOOL, VAL_INT} THEN {Val(makeBool(a.as = b.as))}
    ELSE IF a.type = VAL_NUM
    THEN LET d == F64Sub(a.as, b.as) IN
         IF ~d.ok THEN {[res |-> "NotComputed", value |-> makeNil]}
         ELSE {Val(makeBool(~F64IsNaN(d.bits) /\ MagLess(d.bits, NUM_PRECISION)))}
    ELSE IF a.type = VAL_OBJ
    THEN IF IsObjOfType(m, a, OBJ_STRING) /\ IsObjOfType(m, b, OBJ_STRING)
         THEN {Val(makeBool(m.objects[a.as[1]].data = m.objects[b.as[1]].data))}
         ELSE {Val(makeBool(a.as = b.as))}
    ELSE {Val(makeBool(x)) : x \in BOOLEAN}

op_equal(m0) ==
    LET f == BINARY_OP(m0) IN Assign(f, valuesEqual(f.vm, f.a, f.b))

\* ------------------------------------------------------------------------
\* loadConstants / executeCode (chunk.c 1600-1691, 1728-1742)
\* ------------------------------------------------------------------------
\* index >= length - k and index > length - k in size_t arithmetic: when
\* length < k the difference wraps to 2^64 + length - k, which no index
\* reaches, so the comparison is false.
GeLengthMinus(index, k) == IF length >= k THEN index >= length - k ELSE FALSE
GtLengthMinus(index, k) == IF length >= k THEN index > length - k ELSE FALSE

\* The read below with the four bytes in big-endian order.
ReadS32_mut(index) ==
    LET b0 == code[index + 4]
        b1 == code[index + 3]
        b2 == code[index + 2]
        b3 == code[index + 1]
        hi == IF b3 >= 128 THEN b3 - 256 ELSE b3
    IN  hi * 16777216 + b2 * 65536 + b1 * 256 + b0

\* *(int32_t *)(code + index): four bytes, least significant first.
ReadS32(index) ==
    LET b0 == code[index + 1]
        b1 == code[index + 2]
        b2 == code[index + 3]
        b3 == code[index + 4]
        hi == IF b3 >= 128 THEN b3 - 256 ELSE b3
    IN  hi * 16777216 + b2 * 65536 + b1 * 256 + b0

\* *(double *)(code + index): the eight bytes of the bit pattern.
ReadF64(index) == SubSeq(code, index + 1, index + 8)

\* The for loop of loadConstants from record i on, cursor at index.  A read
\* of code[k] with k >= length is outside the buffer.
RECURSIVE loadRecords(_, _, _, _)
loadRecords(m, i, index, constantCount) ==
    IF i >= constantCount THEN [res |-> "Ok", vm |-> m, index |-> index]
    ELSE IF index >= length THEN [res |-> "Undefined", vm |-> m, index |-> index]
    ELSE IF code[index + 1] = CONST_INT THEN
        IF GeLengthMinus(index, 4) THEN [res |-> "Err", vm |-> m, index |-> index]
        ELSE IF index + 1 + 4 > length
             THEN [res |-> "Undefined", vm |-> m, index |-> index + 1]
             ELSE loadRecords([m EXCEPT !.constants =
                                   Append(@, makeInt(ReadS32(index + 1)))],
                              i + 1, index + 1 + 4, constantCount)
    ELSE IF code[index + 1] = CONST_NUM THEN
        IF GeLengthMinus(index, 8) THEN [res |-> "Err", vm |-> m, index |-> index]
        ELSE IF index + 1 + 8 > length
             THEN [res |-> "Undefined", vm |-> m, index |-> index + 1]
             ELSE loadRecords([m EXCEPT !.constants =
                                   Append(@, makeNum(ReadF64(index + 1)))],
                              i + 1, index + 1 + 8, constantCount)
    ELSE IF code[index + 1] = CONST_STR THEN
        IF GtLengthMinus(index + 1, 1)
        THEN [res |-> "Err", vm |-> m, index |-> index + 1]
        ELSE LET strLength == code[index + 2] IN
             IF GtLengthMinus(index + 2, strLength)
             THEN [res |-> "Err", vm |-> m, index |-> index + 2]
             ELSE IF index + 2 + strLength > length
             THEN [res |-> "Undefined", vm |-> m, index |-> index + 2]
             ELSE LET str == makeString(m, SubSeq(code, index + 3,
                                                  index + 2 + strLength))
                  IN  loadRecords([str.vm EXCEPT !.constants =
                                       Append(@, str.value)],
                                  i + 1, index + 2 + strLength, constantCount)
    ELSE [res |-> "Err", vm |-> m, index |-> index]

loadConstants(m) ==
    IF 0 >= length THEN [res |-> "Undefined", vm |-> m, index |-> 0]
    ELSE loadRecords([m EXCEPT !.constantCount = code[1]], 0, 1, code[1])

\* initVM (chunk.c 1503-1598)
initVM ==
    [start |-> NULL, end |-> NULL, ip |-> NULL, fp |-> 0, sp |-> 0,
     stack |-> <<>>, globals |-> initGlobalArray, objects |-> <<>>,
     constants |-> <<>>, constantCount |-> 0, returnStore |-> makeNil]

\* ------------------------------------------------------------------------
\* History of calls: what each OP_CALL that has not yet returned found
\* (caller's fp, return address, the stack beneath the arguments) and how
\* far the return sequence SET_RETURN, POP.., LOAD_FP, LOAD_IP, PUSH_RETURN
\* of the innermost call has come.
\* ------------------------------------------------------------------------
NoFrame == [callerFp |-> 0, retIp |-> 0, base |-> <<>>, calleeFp |-> 0]

NoCalls == [frames |-> <<>>, phase |-> "none", v |-> makeNil, returned |-> NoFrame]

Last(s) == s[Len(s)]
Front(s) == SubSeq(s, 1, Len(s) - 1)

\* m is the VM before the opcode was fetched, r the handler's result.
CallsStep(opc, m, r) ==
    IF r.res # "Ok" THEN [calls EXCEPT !.phase = "none"]
    ELSE IF opc = OP_CALL THEN
        [calls EXCEPT !.phase = "none",
                      !.frames = Append(@, [callerFp |-> m.fp,
                                            retIp |-> m.ip + 2,
                                            base |-> SubSeq(m.stack, 1,
                                                     m.sp - code[m.ip + 2] - 1),
                                            calleeFp |-> r.vm.fp])]
    ELSE IF opc = OP_SET_RETURN /\ calls.frames # <<>>
            /\ m.fp = Last(calls.frames).calleeFp /\ m.sp > m.fp THEN
        [calls EXCEPT !.phase = "set", !.v = m.stack[m.sp]]
    ELSE IF opc = OP_POP /\ calls.phase = "set" /\ r.vm.sp >= r.vm.fp THEN calls
    ELSE IF opc = OP_LOAD_FP /\ calls.phase = "set" /\ m.sp = m.fp THEN
        [calls EXCEPT !.phase = "fp"]
    ELSE IF opc = OP_LOAD_IP /\ calls.phase = "fp" THEN
        [calls EXCEPT !.phase = "ip"]
    ELSE IF opc = OP_PUSH_RETURN /\ calls.phase = "ip" THEN
        [calls EXCEPT !.phase = "done", !.returned = Last(calls.frames),
                      !.frames = Front(@)]
    ELSE [calls EXCEPT !.phase = "none"]

\* History of captures and global writes.  pending holds [id, slot] for
\* every upvalue made by OP_REF_LOCAL whose slot is still on the stack;
\* frozen maps an upvalue whose slot was removed by OP_POP to the value the
\* slot held at that pop (or the value a later OP_SET_REF wrote through it);
\* lastSet maps a global index to the value of the latest OP_SET_GLOBAL;
\* pre is the stack the instruction before found if that was an OP_STRUCT;
\* op and prev are the last two instructions run (opcode, its address and
\* the value it found on top of the stack, nil for an empty stack).
NoPre == [sp |-> -1, stack |-> <<>>]

NoOp == [opc |-> -1, at |-> -1, top |-> makeNil]

NoHist ==
    [pending |-> {}, frozen |-> <<>>, lastSet |-> <<>>, pre |-> NoPre,
     op |-> NoOp, prev |-> NoOp]

Min(a, b) == IF a < b THEN a ELSE b

\* The lowest slot the instruction removes or relocates.
Low(opc, m, r) ==
    IF opc = OP_CALL THEN Min(m.sp - 1 - code[m.ip + 2], r.vm.sp)
    ELSE IF opc = OP_STRUCT THEN Min(m.sp - code[m.ip + 2], r.vm.sp)
    ELSE IF opc = OP_DESTRUCT THEN Min(m.sp - 1, r.vm.sp)
    ELSE r.vm.sp

\* f with f[k] set to v, k added to its domain if need be.
Put(f, k, v) == [x \in DOMAIN f \cup {k} |-> IF x = k THEN v ELSE f[x]]

CaptureStep(opc, m, r) ==
    IF r.res # "Ok" THEN hist
    ELSE IF opc = OP_REF_LOCAL THEN
        [hist EXCEPT !.pending = @ \cup {[id |-> Len(r.vm.objects),
                                          slot |-> m.fp + code[m.ip + 2]]}]
    ELSE IF opc = OP_POP THEN
        LET gone == {p \in hist.pending : p.slot = m.sp - 1}
        IN  [hist EXCEPT
               !.pending = @ \ gone,
               !.frozen = [x \in DOMAIN @ \cup {p.id : p \in gone} |->
                             IF x \in {p.id : p \in gone}
                             THEN m.stack[m.sp] ELSE @[x]]]
    ELSE IF opc = OP_SET_REF THEN
        [hist EXCEPT
           !.pending = {p \in @ : p.slot < r.vm.sp},
           !.frozen = IF m.stack[m.sp].as[1] \in DOMAIN @
                      THEN Put(@, m.stack[m.sp].as[1], m.stack[m.sp - 1])
                      ELSE @]
    ELSE IF opc = OP_SET_GLOBAL THEN
        [hist EXCEPT
           !.pending = {p \in @ : p.slot < r.vm.sp},
           !.lastSet = Put(@, code[m.ip + 2], m.stack[m.sp])]
    ELSE [hist EXCEPT !.pending = {p \in @ : p.slot < Low(opc, m, r)}]

HistStep(opc, m, r) ==
    [CaptureStep(opc, m, r) EXCEPT
       !.pre = IF opc = OP_STRUCT /\ r.res = "Ok"
               THEN [sp |-> m.sp, stack |-> SubSeq(m.stack, 1, m.sp)]
               ELSE NoPre,
       !.op = [opc |-> opc, at |-> m.ip,
               top |-> IF m.sp >= 1 /\ m.sp <= Len(m.stack)
                       THEN m.stack[m.sp] ELSE makeNil],
       !.prev = hist.op]

\* ------------------------------------------------------------------------
\* executeCode and the dispatch loop runVM (chunk.c 1693-1742)
\* ------------------------------------------------------------------------
ExecuteCode ==
    /\ result = "init"
    /\ LET r == loadConstants(vm) IN
       /\ vm' = IF r.res = "Ok"
                THEN [r.vm EXCEPT !.start = 0, !.end = length, !.ip = r.index]
                ELSE r.vm
       /\ result' = IF r.res = "Ok" THEN "running" ELSE r.res
    /\ UNCHANGED <<code, length, stdout, calls, hist, main>>

\* while (vm->end - vm->ip > 0) is false: runVM returns RESULT_OK.
RunVMReturn ==
    /\ result = "running"
    /\ ~(vm.end - vm.ip > 0)
    /\ result' = "Ok"
    /\ calls' = [calls EXCEPT !.phase = "none"]
    /\ UNCHANGED <<code, length, vm, stdout, hist, main>>

Fetch(opc) ==
    /\ result = "running"
    /\ vm.end - vm.ip > 0
    /\ code[vm.ip + 1] = opc

\* uint8_t opcode = *vm->ip++;
Fetched == [vm EXCEPT !.ip = @ + 1]

Complete(opc, r) ==
    /\ r.res # "NotComputed"
    /\ vm' = r.vm
    /\ result' = (IF r.res = "Ok" THEN "running" ELSE r.res)
    /\ stdout' = stdout \o r.out
    /\ calls' = CallsStep(opc, vm, r)
    /\ hist' = HistStep(opc, vm, r)
    /\ UNCHANGED <<code, length, main>>

UnknownOpcode ==
    /\ result = "running"
    /\ vm.end - vm.ip > 0
    /\ code[vm.ip + 1] >= OP_COUNT
    /\ vm' = Fetched
    /\ result' = "Err"
    /\ calls' = [calls EXCEPT !.phase = "none"]
    /\ UNCHANGED <<code, length, stdout, hist, main>>

OpPushConst == Fetch(OP_PUSH_CONST) /\ Complete(OP_PUSH_CONST, op_pushConst(Fetched))
OpPushTrue == Fetch(OP_PUSH_TRUE) /\ Complete(OP_PUSH_TRUE, op_pushTrue(Fetched))
OpPushFalse == Fetch(OP_PUSH_FALSE) /\ Complete(OP_PUSH_FALSE, op_pushFalse(Fetched))
OpPushNil == Fetch(OP_PUSH_NIL) /\ Complete(OP_PUSH_NIL, op_pushNil(Fetched))
OpSetGlobal == Fetch(OP_SET_GLOBAL) /\ Complete(OP_SET_GLOBAL, op_setGlobal(Fetched))
OpPushGlobal == Fetch(OP_PUSH_GLOBAL) /\ Complete(OP_PUSH_GLOBAL, op_pushGlobal(Fetched))
OpSetLocal == Fetch(OP_SET_LOCAL) /\ Complete(OP_SET_LOCAL, op_setLocal(Fetched))
OpPushLocal == Fetch(OP_PUSH_LOCAL) /\ Complete(OP_PUSH_LOCAL, op_pushLocal(Fetched))
OpPrint == Fetch(OP_PRINT) /\ Complete(OP_PRINT, op_print(Fetched))
OpPop == Fetch(OP_POP) /\ Complete(OP_POP, op_pop(Fetched))
OpSquash == Fetch(OP_SQUASH) /\ Complete(OP_SQUASH, op_squash(Fetched))
OpJump == Fetch(OP_JUMP) /\ Complete(OP_JUMP, op_jump(Fetched))
OpJumpIfFalse ==
    /\ Fetch(OP_JUMP_IF_FALSE)
    /\ \E b \in AsBool(JumpCond(Fetched)) :
          Complete(OP_JUMP_IF_FALSE, op_jumpIfFalse(Fetched, b))
OpLoop == Fetch(OP_LOOP) /\ Complete(OP_LOOP, op_loop(Fetched))
OpFunction == Fetch(OP_FUNCTION) /\ Complete(OP_FUNCTION, op_function(Fetched))
OpCall == Fetch(OP_CALL) /\ Complete(OP_CALL, op_call(Fetched))
OpLoadIp == Fetch(OP_LOAD_IP) /\ Complete(OP_LOAD_IP, op_loadIp(Fetched))
OpLoadFp == Fetch(OP_LOAD_FP) /\ Complete(OP_LOAD_FP, op_loadFp(Fetched))
OpSetReturn == Fetch(OP_SET_RETURN) /\ Complete(OP_SET_RETURN, op_setReturn(Fetched))
OpPushReturn == Fetch(OP_PUSH_RETURN) /\ Complete(OP_PUSH_RETURN, op_pushReturn(Fetched))
OpStruct == Fetch(OP_STRUCT) /\ Complete(OP_STRUCT, op_struct(Fetched))
OpDestruct == Fetch(OP_DESTRUCT) /\ Complete(OP_DESTRUCT, op_destruct(Fetched))
OpExtractField == Fetch(OP_EXTRACT_FIELD) /\ Complete(OP_EXTRACT_FIELD, op_extractField(Fetched))
OpRefLocal == Fetch(OP_REF_LOCAL) /\ Complete(OP_REF_LOCAL, op_refLocal(Fetched))
OpDeref == Fetch(OP_DEREF) /\ Complete(OP_DEREF, op_deref(Fetched))
OpSetRef == Fetch(OP_SET_REF) /\ Complete(OP_SET_REF, op_setRef(Fetched))
OpIsValType == Fetch(OP_IS_VAL_TYPE) /\ Complete(OP_IS_VAL_TYPE, op_isValType(Fetched))
OpInt == Fetch(OP_INT) /\ \E r \in op_int(Fetched) : Complete(OP_INT, r)
OpBool == Fetch(OP_BOOL) /\ Complete(OP_BOOL, op_bool(Fetched))
OpNum == Fetch(OP_NUM) /\ Complete(OP_NUM, op_num(Fetched))
OpStr == Fetch(OP_STR) /\ Complete(OP_STR, op_str(Fetched))
OpIntNeg == Fetch(OP_INT_NEG) /\ \E r \in op_intNeg(Fetched) : Complete(OP_INT_NEG, r)
OpNumNeg == Fetch(OP_NUM_NEG) /\ \E r \in op_numNeg(Fetched) : Complete(OP_NUM_NEG, r)
OpIntAdd == Fetch(OP_INT_ADD) /\ \E r \in op_intAdd(Fetched) : Complete(OP_INT_ADD, r)
OpNumAdd == Fetch(OP_NUM_ADD) /\ \E r \in op_numAdd(Fetched) : Complete(OP_NUM_ADD, r)
OpIntSub == Fetch(OP_INT_SUB) /\ \E r \in op_intSub(Fetched) : Complete(OP_INT_SUB, r)
OpNumSub == Fetch(OP_NUM_SUB) /\ \E r \in op_numSub(Fetched) : Complete(OP_NUM_SUB, r)
OpIntMul == Fetch(OP_INT_MUL) /\ \E r \in op_intMul(Fetched) : Complete(OP_INT_MUL, r)
OpNumMul == Fetch(OP_NUM_MUL) /\ \E r \in op_numMul(Fetched) : Complete(OP_NUM_MUL, r)
OpIntDiv == Fetch(OP_INT_DIV) /\ \E r \in op_intDiv(Fetched) : Complete(OP_INT_DIV, r)
OpNumDiv == Fetch(OP_NUM_DIV) /\ \E r \in op_numDiv(Fetched) : Complete(OP_NUM_DIV, r)
OpNot == Fetch(OP_NOT) /\ \E r \in op_not(Fetched) : Complete(OP_NOT, r)
OpIntLess == Fetch(OP_INT_LESS) /\ \E r \in op_intLess(Fetched) : Complete(OP_INT_LESS, r)
OpNumLess == Fetch(OP_NUM_LESS) /\ \E r \in op_numLess(Fetched) : Complete(OP_NUM_LESS, r)
OpIntGreater == Fetch(OP_INT_GREATER) /\ \E r \in op_intGreater(Fetched) : Complete(OP_INT_GREATER, r)
OpNumGreater == Fetch(OP_NUM_GREATER) /\ \E r \in op_numGreater(Fetched) : Complete(OP_NUM_GREATER, r)
OpEqual == Fetch(OP_EQUAL) /\ \E r \in op_equal(Fetched) : Complete(OP_EQUAL, r)
OpStrCat == Fetch(OP_STR_CAT) /\ Complete(OP_STR_CAT, op_strCat(Fetched))
OpIsObjType == Fetch(OP_IS_OBJ_TYPE) /\ \E r \in op_isObjType(Fetched) : Complete(OP_IS_OBJ_TYPE, r)
OpGetField == Fetch(OP_GET_FIELD) /\ Complete(OP_GET_FIELD, op_getField(Fetched))
OpSetField == Fetch(OP_SET_FIELD) /\ Complete(OP_SET_FIELD, op_setField(Fetched))
OpInsertField == Fetch(OP_INSERT_FIELD) /\ Complete(OP_INSERT_FIELD, op_insertField(Fetched))
OpClock == Fetch(OP_CLOCK) /\ \E t \in ClockValues : Complete(OP_CLOCK, op_clock(Fetched, t))

\* ------------------------------------------------------------------------
\* The modules executed.  A module is the byte buffer read from the .clr.b
\* file: one byte N, N constant records, then code.  main() rejects the
\* empty file, so every buffer holds at least one byte.
\* ------------------------------------------------------------------------
MaxFreeLen == 2        \* code bytes of the freely enumerated modules
MaxUpvalueLen == 4     \* code bytes after the first local in UpvalueModules
MaxShallow == 2        \* shallow stack depths 0..MaxShallow
DeepMargin == 2        \* deep stack depths STACK_MAX-DeepMargin..STACK_MAX
MaxCount == 3          \* operand n of CALL / STRUCT / DESTRUCT, arguments of a call
MaxLocals == 1         \* locals of a caller or callee beside the arguments
MaxBodyLen == 3        \* code bytes of the freely enumerated callee bodies
MaxBufLen == 6         \* length of the freely enumerated loader buffers
MaxRefLen == 4         \* instructions between a capture and its last use
MaxGlobalLen == 3      \* instructions of the global read/write modules
MaxOff == 3            \* jump offsets and bytes after a jump
MaxPrintLen == 3       \* instructions of the printing modules
MaxCastLen == 3        \* casts applied to one value
MaxTypeByte == 7       \* operand t of IS_VAL_TYPE / IS_OBJ_TYPE
MaxFieldLen == 2       \* instructions of the field read/write modules

SeqsUpTo(S, n) == UNION {[1..k -> S] : k \in 0..n}
Rep(n, b) == [i \in 1..n |-> b]

RECURSIVE Concat(_)
Concat(ss) == IF ss = <<>> THEN <<>> ELSE Head(ss) \o Concat(Tail(ss))

\* A header of MaxCount Int constants 10, 11, ...
IntHeader == <<MaxCount>> \o Concat([i \in 1..MaxCount |-> <<CONST_INT, 9 + i, 0, 0, 0>>])

\* A header with the single String constant "hi".
StrHeader == <<1, CONST_STR, 2, 104, 105>>

FreeBytes ==
    {OP_PUSH_CONST, OP_PUSH_TRUE, OP_PUSH_FALSE, OP_PUSH_NIL, OP_SET_GLOBAL,
     OP_PUSH_GLOBAL, OP_SET_LOCAL, OP_PUSH_LOCAL, OP_PRINT, OP_POP, OP_SQUASH,
     OP_JUMP, OP_JUMP_IF_FALSE, OP_LOOP, OP_FUNCTION, OP_CALL, OP_LOAD_IP,
     OP_LOAD_FP, OP_SET_RETURN, OP_PUSH_RETURN, OP_STRUCT, OP_DESTRUCT,
     OP_EXTRACT_FIELD, OP_REF_LOCAL, OP_DEREF, OP_SET_REF, OP_IS_VAL_TYPE,
     OP_COUNT, U8_MAX}

FreeModules == {StrHeader \o s : s \in SeqsUpTo(FreeBytes, MaxFreeLen)}

\* One local, then any short mix of the opcodes that create, copy and remove
\* captured slots.
UpvalueBytes ==
    {0, OP_PUSH_LOCAL, OP_POP, OP_SQUASH, OP_SET_GLOBAL, OP_REF_LOCAL, OP_DEREF}

UpvalueModules ==
    {<<0, OP_PUSH_TRUE>> \o s : s \in SeqsUpTo(UpvalueBytes, MaxUpvalueLen)}

\* Stack depths at both ends of the array.
Depths == (0..MaxShallow) \cup ((STACK_MAX - DeepMargin)..STACK_MAX)

\* A struct of k fields parked in global 0.
StructSetup(k) == Rep(k, OP_PUSH_TRUE) \o <<OP_STRUCT, k, OP_SET_GLOBAL, 0>>

\* d pushes, then one of the single- or multi-slot stack operations.
DepthSuffixes ==
    {<<OP_PUSH_TRUE, OP_PUSH_TRUE>>, <<OP_POP, OP_POP>>, <<OP_SET_RETURN>>,
     <<OP_IS_VAL_TYPE, VAL_BOOL>>, <<OP_PUSH_RETURN>>}
    \cup {<<OP_STRUCT, n>> : n \in 0..MaxCount}
    \cup {<<OP_STRUCT, n, OP_DESTRUCT, 0>> : n \in 0..MaxCount}
    \cup {<<OP_FUNCTION, 0, OP_CALL, n>> : n \in 0..MaxCount}
    \cup {<<OP_PUSH_NIL, OP_CALL, n>> : n \in 0..1}
    \cup {<<OP_EXTRACT_FIELD, off, 0>> : off \in 0..MaxCount}

DepthModules ==
    {<<0>> \o Rep(d, OP_PUSH_TRUE) \o s : d \in Depths, s \in DepthSuffixes}
    \cup {<<0>> \o StructSetup(k) \o Rep(d, OP_PUSH_TRUE)
               \o <<OP_PUSH_GLOBAL, 0, OP_DESTRUCT, dd>> :
            k \in 0..MaxCount, d \in Depths, dd \in 0..1}

\* Calls.  Func(body) is the function value whose code is body; the return
\* sequence is the one the compiler emits.
Func(body) == <<OP_FUNCTION, Len(body)>> \o body

Args(n) == Concat([i \in 1..n |-> <<OP_PUSH_CONST, i - 1>>])

\* Callee with l locals of its own and n arguments returning value bytes v.
Return(v, n, l) ==
    Rep(l, OP_PUSH_NIL) \o v \o <<OP_SET_RETURN>> \o Rep(n + l, OP_POP)
        \o <<OP_LOAD_FP, OP_LOAD_IP>>

ReturnValues(n) ==
    {<<OP_PUSH_FALSE>>} \cup {<<OP_PUSH_LOCAL, i>> : i \in 0..(n - 1)}

\* Caller with k locals calling a function of n arguments.
CallOf(k, n, body) ==
    Rep(k, OP_PUSH_NIL) \o Args(n) \o Func(body) \o <<OP_CALL, n, OP_PUSH_RETURN>>

SimpleBodies(n) ==
    {Return(v, n, l) : v \in ReturnValues(n), l \in 0..MaxLocals}

\* A callee that itself calls a function of m arguments before returning.
NestedBodies(n) ==
    {CallOf(0, m, Return(<<OP_PUSH_TRUE>>, m, 0)) \o <<OP_SET_RETURN>>
         \o Rep(n, OP_POP) \o <<OP_LOAD_FP, OP_LOAD_IP>> : m \in 0..1}

\* Global 0 holds the function, global 1 a flag: the function calls itself
\* once while the flag is set.
RecursiveBody ==
    LET again == <<OP_PUSH_FALSE, OP_SET_GLOBAL, 1, OP_PUSH_GLOBAL, 0,
                   OP_CALL, 0, OP_PUSH_RETURN, OP_POP>>
    IN  <<OP_PUSH_GLOBAL, 1, OP_JUMP_IF_FALSE, Len(again)>> \o again
           \o Return(<<OP_PUSH_GLOBAL, 1>>, 0, 0)

RecursiveModule ==
    IntHeader \o <<OP_PUSH_TRUE, OP_SET_GLOBAL, 1>> \o Func(RecursiveBody)
        \o <<OP_SET_GLOBAL, 0, OP_PUSH_GLOBAL, 0, OP_CALL, 0, OP_PUSH_RETURN>>

CallModules ==
    UNION {{IntHeader \o CallOf(k, n, body) \o tail :
               k \in 0..MaxLocals,
               body \in SimpleBodies(n) \cup NestedBodies(n),
               tail \in {<<>>, <<OP_POP>>}} : n \in 0..MaxCount}
    \cup {RecursiveModule}

\* A call of a function whose body is any short mix of the frame opcodes.
CalleeBytes ==
    {0, OP_PUSH_TRUE, OP_PUSH_LOCAL, OP_POP, OP_LOAD_IP, OP_LOAD_FP,
     OP_SET_RETURN, OP_PUSH_RETURN}

CalleeModules ==
    {IntHeader \o CallOf(k, n, body) :
        k \in 0..1, n \in 0..1, body \in SeqsUpTo(CalleeBytes, MaxBodyLen)}

\* Loader inputs: every short buffer over the three tags and one unknown
\* tag, and the buffers announcing one Num record with 0..8 payload bytes.
LoaderBytes == {CONST_INT, CONST_NUM, CONST_STR, 3}

LoaderBuffers ==
    (SeqsUpTo(LoaderBytes, MaxBufLen) \ {<<>>})
    \cup {<<1, CONST_NUM>> \o Rep(k, 1) \o t : k \in 0..8, t \in {<<>>, <<OP_PUSH_CONST, 0>>}}
    \cup {<<2, CONST_STR, 1, 104, CONST_INT, 1, 1, 0, 255>> \o t :
             t \in {<<>>, <<OP_PUSH_CONST, 1>>}}

\* A local is captured and the upvalue parked in global 0; then any short
\* mix of copies, stores, pops and writes through the upvalue; then a read
\* through the upvalue.
RefInstrs ==
    {<<OP_PUSH_LOCAL, 0>>, <<OP_POP>>, <<OP_PUSH_FALSE>>, <<OP_SET_LOCAL, 0>>,
     <<OP_SET_LOCAL, 1>>, <<OP_PUSH_NIL, OP_PUSH_GLOBAL, 0, OP_SET_REF>>}

RefModules ==
    {<<0, OP_PUSH_TRUE, OP_REF_LOCAL, 0, OP_SET_GLOBAL, 0>> \o Concat(s)
         \o <<OP_PUSH_GLOBAL, 0, OP_DEREF>> : s \in SeqsUpTo(RefInstrs, MaxRefLen)}

\* Any short mix of writes and reads of the first, second and last global.
GlobalIdx == {0, 1, U8_MAX}

GlobalInstrs ==
    {<<OP_PUSH_TRUE, OP_SET_GLOBAL, i>> : i \in GlobalIdx}
    \cup {<<OP_PUSH_FALSE, OP_SET_GLOBAL, i>> : i \in GlobalIdx}
    \cup {<<OP_PUSH_GLOBAL, i>> : i \in GlobalIdx}
    \cup {<<OP_POP>>}

GlobalModules == {<<0>> \o Concat(s) : s \in SeqsUpTo(GlobalInstrs, MaxGlobalLen)}

\* Jumps.  The header holds the Int constants 0 and 256.
JumpHeader == <<2, CONST_INT, 0, 0, 0, 0, CONST_INT, 0, 1, 0, 0>>

Conds ==
    {<<OP_PUSH_TRUE>>, <<OP_PUSH_FALSE>>, <<OP_PUSH_NIL>>, <<OP_PUSH_CONST, 0>>,
     <<OP_PUSH_CONST, 1>>, <<OP_FUNCTION, 0>>}

JumpModules ==
    {JumpHeader \o c \o <<OP_JUMP_IF_FALSE, off>> \o Rep(k, OP_PUSH_TRUE) :
        c \in Conds, off \in 0..MaxOff, k \in 0..MaxOff}
    \cup {JumpHeader \o <<OP_JUMP, off>> \o Rep(k, OP_PUSH_TRUE) :
             off \in 0..MaxOff, k \in 0..MaxOff}
    \cup {<<0>> \o Rep(k, OP_PUSH_NIL) \o <<OP_LOOP, off>> :
             k \in 0..MaxOff, off \in 0..(MaxOff + 4)}
    \cup {<<0, OP_JUMP, off>> \o Rep(off, OP_PUSH_NIL) \o <<OP_LOOP, off>> \o t :
             off \in 0..MaxOff, t \in {<<>>, <<OP_PUSH_TRUE>>}}

\* OP_SET_REF on every pair of an upvalue of local 0 and a plain value, in
\* both orders, followed by a read of the local.
SetRefOperands == {<<OP_REF_LOCAL, 0>>, <<OP_PUSH_FALSE>>, <<OP_PUSH_NIL>>}

SetRefModules ==
    {<<0, OP_PUSH_TRUE>> \o a \o b \o <<OP_SET_REF>> \o t :
        a \in SetRefOperands, b \in SetRefOperands,
        t \in {<<>>, <<OP_PUSH_LOCAL, 0>>}}

\* Two upvalues made on local 0 and parked in globals 0 and 1; then any
\* short mix of popping the top slot and storing a value through one of
\* the upvalues, and a read of the cell through an upvalue or as the local.
MaxCellLen == 3

CellInstrs ==
    {<<OP_POP>>}
    \cup {<<v, OP_PUSH_GLOBAL, g, OP_SET_REF>> :
             v \in {OP_PUSH_FALSE, OP_PUSH_NIL}, g \in {0, 1}}

CellReads ==
    {<<OP_PUSH_GLOBAL, h, OP_DEREF>> : h \in {0, 1}} \cup {<<OP_PUSH_LOCAL, 0>>}

CellModules ==
    {<<0, OP_PUSH_TRUE, OP_REF_LOCAL, 0, OP_SET_GLOBAL, 0,
       OP_REF_LOCAL, 0, OP_SET_GLOBAL, 1>> \o Concat(s) \o r :
        s \in SeqsUpTo(CellInstrs, MaxCellLen), r \in CellReads}

\* Printing.  The header holds the String constants "hi" and "yo"; the
\* instructions print one of them, fail in OP_PRINT, or are no opcode.
PrintHeader == <<2, CONST_STR, 2, 104, 105, CONST_STR, 2, 121, 111>>

PrintInstrs ==
    {<<OP_PUSH_CONST, 0, OP_PRINT>>, <<OP_PUSH_CONST, 1, OP_PRINT>>,
     <<OP_PRINT>>, <<OP_PUSH_TRUE, OP_PRINT>>, <<OP_COUNT>>, <<U8_MAX>>}

PrintModules ==
    {PrintHeader \o Concat(s) : s \in SeqsUpTo(PrintInstrs, MaxPrintLen)}

\* Casts.  The header holds the Int constants 0, 5 and -16776959, the Num
\* constants 0.0, 2.5, -0.75, 1e-8, 3e9 and NaN and the String constant "hi";
\* one value of any tag is pushed and a short chain of casts applied.
CastHeader ==
    <<10, CONST_INT, 0, 0, 0, 0, CONST_INT, 5, 0, 0, 0, CONST_INT, 1, 1, 0, 255,
      CONST_NUM, 0, 0, 0, 0, 0, 0, 0, 0,
      CONST_NUM, 0, 0, 0, 0, 0, 0, 4, 64,
      CONST_NUM, 0, 0, 0, 0, 0, 0, 232, 191,
      CONST_NUM, 58, 140, 48, 226, 142, 121, 69, 62,
      CONST_NUM, 0, 0, 0, 192, 11, 90, 230, 65,
      CONST_NUM, 0, 0, 0, 0, 0, 0, 248, 127,
      CONST_STR, 2, 104, 105>>

CastOperands ==
    {<<OP_PUSH_CONST, i>> : i \in 0..9}
    \cup {<<OP_PUSH_TRUE>>, <<OP_PUSH_FALSE>>, <<OP_PUSH_NIL>>, <<OP_FUNCTION, 0>>,
          <<OP_CLOCK>>, <<OP_PUSH_TRUE, OP_REF_LOCAL, 0>>, <<OP_STRUCT, 0>>, <<>>}

CastBytes == {OP_INT, OP_BOOL, OP_NUM, OP_STR}

CastModules ==
    {CastHeader \o v \o s : v \in CastOperands, s \in SeqsUpTo(CastBytes, MaxCastLen)}

\* Arithmetic, comparison and concatenation.  The header holds the Int
\* constants 7, 0, INT_MIN and -1, the Num constants 1.5, -2.0 and 0.0 and
\* the String constants "hi", "hi" and "a"; two values of any tags are
\* pushed and one operation applied.
ArithHeader ==
    <<10, CONST_INT, 7, 0, 0, 0, CONST_INT, 0, 0, 0, 0, CONST_INT, 0, 0, 0, 128,
      CONST_INT, 255, 255, 255, 255,
      CONST_NUM, 0, 0, 0, 0, 0, 0, 248, 63,
      CONST_NUM, 0, 0, 0, 0, 0, 0, 0, 192,
      CONST_NUM, 0, 0, 0, 0, 0, 0, 0, 0,
      CONST_STR, 2, 104, 105, CONST_STR, 2, 104, 105, CONST_STR, 1, 97>>

ArithOperands ==
    {<<OP_PUSH_CONST, i>> : i \in 0..9}
    \cup {<<OP_PUSH_TRUE>>, <<OP_PUSH_NIL>>, <<OP_STRUCT, 0>>}

ArithBytes ==
    {OP_INT_NEG, OP_NUM_NEG, OP_INT_ADD, OP_NUM_ADD, OP_INT_SUB, OP_NUM_SUB,
     OP_INT_MUL, OP_NUM_MUL, OP_INT_DIV, OP_NUM_DIV, OP_STR_CAT, OP_NOT,
     OP_INT_LESS, OP_NUM_LESS, OP_INT_GREATER, OP_NUM_GREATER, OP_EQUAL}

ArithModules ==
    {ArithHeader \o a \o b \o <<opc>> :
        a \in ArithOperands, b \in ArithOperands, opc \in ArithBytes}

\* One value of any tag, then a test of its value tag or object tag.
TypeTestModules ==
    {CastHeader \o v \o <<opc, t>> :
        v \in CastOperands, opc \in {OP_IS_VAL_TYPE, OP_IS_OBJ_TYPE},
        t \in 0..MaxTypeByte}

\* Field reads and writes.  A struct A of 0..2 Int fields and a struct B of
\* one Bool field (or an Int in place of either) are on the stack; then any
\* short mix of field reads, field writes and pushes.
FieldSetups ==
    {Concat([i \in 1..k |-> <<OP_PUSH_CONST, i - 1>>]) \o <<OP_STRUCT, k>>
        \o <<OP_PUSH_TRUE, OP_STRUCT, 1>> : k \in 0..2}
    \cup {<<OP_PUSH_TRUE, OP_STRUCT, 1, OP_PUSH_CONST, 0, OP_PUSH_CONST, 1, OP_STRUCT, 2>>,
          <<OP_PUSH_CONST, 0>>}

FieldInstrs ==
    {<<opc, i>> : opc \in {OP_GET_FIELD, OP_SET_FIELD}, i \in 0..1}
    \cup {<<opc, off, i>> : opc \in {OP_EXTRACT_FIELD, OP_INSERT_FIELD},
                            off \in 0..1, i \in 0..1}
    \cup {<<OP_PUSH_NIL>>, <<OP_PUSH_CONST, 0>>}

FieldModules ==
    {IntHeader \o a \o Concat(s) :
        a \in FieldSetups, s \in SeqsUpTo(FieldInstrs, MaxFieldLen)}

\* Struct values and their copies.  A struct A of one Int field is local 0;
\* the second slot gets a copy of A made through the stack, a global, the
\* return store or a field of another struct, or a struct of its own; nil
\* is written to field 0 through one of the two slots and field 0 is read
\* through one of them.
AliasCopies ==
    {<<OP_PUSH_LOCAL, 0>>,
     <<OP_PUSH_LOCAL, 0, OP_SET_GLOBAL, 0, OP_PUSH_GLOBAL, 0>>,
     <<OP_PUSH_LOCAL, 0, OP_SET_RETURN, OP_PUSH_RETURN>>,
     <<OP_PUSH_LOCAL, 0, OP_STRUCT, 1, OP_GET_FIELD, 0>>,
     <<OP_PUSH_CONST, 0, OP_STRUCT, 1>>}

AliasWrites ==
    {<<OP_PUSH_NIL, OP_SET_FIELD, 0>>, <<OP_PUSH_NIL, OP_INSERT_FIELD, 1, 0>>}

AliasReads ==
    {<<OP_EXTRACT_FIELD, 0, 0>>, <<OP_EXTRACT_FIELD, 1, 0>>, <<OP_GET_FIELD, 0>>}

AliasModules ==
    {IntHeader \o <<OP_PUSH_CONST, 0, OP_STRUCT, 1>> \o c \o w \o r :
        c \in AliasCopies, w \in AliasWrites, r \in AliasReads}

Modules ==
    UNION {AliasModules, FreeModules, UpvalueModules, DepthModules, CallModules, CalleeModules,
           LoaderBuffers, RefModules, GlobalModules, JumpModules, SetRefModules,
           PrintModules, CastModules, ArithModules, TypeTestModules, FieldModules,
           CellModules}

\* ------------------------------------------------------------------------
\* The launcher (main, part_019 216-292).  main holds its position pc, what
\* the file is, the state of the module buffer, the number of freeVM calls
\* and the exit status (-1 while main has not returned).
\* ------------------------------------------------------------------------
\* readFile: {NULL, 0} for a file that cannot be opened; for an empty file
\* ALLOCATE_ARRAY(uint8_t, 0) is reallocate(NULL, 0, 0), which is NULL too.
readFile(file, content) ==
    IF file = "missing" \/ Len(content) = 0
    THEN [buffer |-> "none", length |-> 0]
    ELSE [buffer |-> "live", length |-> Len(content)]

\* EXIT calling freeVM only on the success path.
EXIT_mut(mn, status, withBuffer) ==
    [mn EXCEPT !.buffer = IF withBuffer THEN "freed" ELSE @,
               !.freeVM = IF status = 0 THEN @ + 1 ELSE @,
               !.exit = status,
               !.pc = "returned"]

\* EXIT(code) as #defined once the VM is initialised: freeVM(&vm); return
\* code; and, once the file is read, FREE_ARRAY of the buffer before that.
EXIT(mn, status, withBuffer) ==
    [mn EXCEPT !.buffer = IF withBuffer THEN "freed" ELSE @,
               !.freeVM = @ + 1,
               !.exit = status,
               !.pc = "returned"]

\* main from readFile to the call of executeCode; the file is missing,
\* empty, or holds a module.
MainReadFile ==
    /\ result = "start"
    /\ main.pc = "readFile"
    /\ \E file \in {"missing", "empty", "module"} :
       \E content \in (IF file = "module" THEN Modules ELSE {<<>>}) :
          LET byteCode == readFile(file, content) IN
          /\ code' = content
          /\ length' = byteCode.length
          /\ IF byteCode.length = 0 \/ byteCode.buffer = "none"
             THEN /\ main' = EXIT([main EXCEPT !.file = file], 1, FALSE)
                  /\ UNCHANGED result
             ELSE /\ main' = [main EXCEPT !.file = file,
                                          !.buffer = byteCode.buffer,
                                          !.pc = "executeCode"]
                  /\ result' = "init"
    /\ UNCHANGED <<vm, stdout, calls, hist>>

\* main after executeCode has returned.
MainReturn ==
    /\ main.pc = "executeCode"
    /\ result \in {"Ok", "Err"}
    /\ main' = EXIT(main, IF result # "Ok" THEN 1 ELSE 0, TRUE)
    /\ UNCHANGED <<code, length, vm, result, stdout, calls, hist>>

\* ------------------------------------------------------------------------
\* Specification
\* ------------------------------------------------------------------------
\* main with the VM initialised, about to read the file.
NoMain == [pc |-> "readFile", file |-> "none", buffer |-> "none", freeVM |-> 0, exit |-> -1]

Init ==
    /\ code = <<>>
    /\ length = 0
    /\ main = NoMain
    /\ vm = initVM
    /\ result = "start"
    /\ stdout = <<>>
    /\ calls = NoCalls
    /\ hist = NoHist

Next ==
    \/ MainReadFile
    \/ MainReturn
    \/ ExecuteCode
    \/ RunVMReturn
    \/ UnknownOpcode
    \/ OpPushConst
    \/ OpPushTrue
    \/ OpPushFalse
    \/ OpPushNil
    \/ OpSetGlobal
    \/ OpPushGlobal
    \/ OpSetLocal
    \/ OpPushLocal
    \/ OpPrint
    \/ OpPop
    \/ OpSquash
    \/ OpJump
    \/ OpJumpIfFalse
    \/ OpLoop
    \/ OpFunction
    \/ OpCall
    \/ OpLoadIp
    \/ OpLoadFp
    \/ OpSetReturn
    \/ OpPushReturn
    \/ OpStruct
    \/ OpDestruct
    \/ OpExtractField
    \/ OpRefLocal
    \/ OpDeref
    \/ OpSetRef
    \/ OpIsValType
    \/ OpInt
    \/ OpBool
    \/ OpNum
    \/ OpStr
    \/ OpClock
    \/ OpGetField
    \/ OpSetField
    \/ OpInsertField
    \/ OpIsObjType
    \/ OpIntNeg
    \/ OpNumNeg
    \/ OpIntAdd
    \/ OpNumAdd
    \/ OpIntSub
    \/ OpNumSub
    \/ OpIntMul
    \/ OpNumMul
    \/ OpIntDiv
    \/ OpNumDiv
    \/ OpNot
    \/ OpIntLess
    \/ OpNumLess
    \/ OpIntGreater
    \/ OpNumGreater
    \/ OpEqual
    \/ OpStrCat

Spec == Init /\ [][Next]_vars

\* ------------------------------------------------------------------------
\* Properties
\* ------------------------------------------------------------------------

\* C1: in every reachable state 0 <= sp - stack <= STACK_MAX.
C1_StackPointerInBounds == 0 <= vm.sp /\ vm.sp <= STACK_MAX

\* C2: in every reachable state stack <= fp <= sp (stated for the states in
\* which no handler has failed).
C2_FramePointerInBounds ==
    result = "running" => (0 <= vm.fp /\ vm.fp <= vm.sp)

\* C3: at every fetch and after every handler that returned Ok,
\* start <= ip <= end.
C3_IpInBounds ==
    result = "running" => (vm.start <= vm.ip /\ vm.ip <= vm.end)

\* id is on the reference chain that starts at head.
RECURSIVE InChain(_, _, _)
InChain(m, id, head) ==
    IF head = NULL THEN FALSE
    ELSE IF head = id THEN TRUE
    ELSE InChain(m, id, m.objects[head].next)

OpenUpvalues(m) ==
    {id \in 1..Len(m.objects) :
        m.objects[id].type = OBJ_UPVALUE /\ m.objects[id].open}

\* C4: every open upvalue points at a live stack slot (below sp) and is on
\* the reference chain of that slot.
C4_OpenUpvaluesLinked ==
    \A id \in OpenUpvalues(vm) :
        /\ vm.objects[id].ptr < vm.sp
        /\ InChain(vm, id, vm.stack[vm.objects[id].ptr + 1].references)

\* The opcode at ip is opc and its k operand bytes lie inside the module.
AtOp(opc, k) == Fetch(opc) /\ vm.ip + k < vm.end

\* Operand j (1, 2) of the instruction at ip.
Operand(j) == code[vm.ip + 1 + j]

\* Slots 0..k-1 are the same before and after the step.
SlotsKept(k) == \A i \in 1..k : vm'.stack[i] = vm.stack[i]

\* C5: OP_CALL n on ..., a0..a(n-1), IP(t) leaves ..., IP(r), FP(f),
\* a0..a(n-1) with ip = t and fp at a0 (whenever the frame fits the stack);
\* with a top value that is not an IP it fails.
C5_CallBuildsFrame ==
    [][AtOp(OP_CALL, 1) =>
         LET n == Operand(1)
             D == vm.sp
         IN  /\ (D >= 1 /\ vm.stack[D].type # VAL_IP) => result' = "Err"
             /\ (D >= n + 1 /\ vm.stack[D].type = VAL_IP /\ D + 1 <= STACK_MAX) =>
                   /\ result' = "running"
                   /\ vm'.sp = D + 1
                   /\ vm'.ip = vm.stack[D].as[1]
                   /\ vm'.fp = D - n + 1
                   /\ SlotsKept(D - n - 1)
                   /\ vm'.stack[D - n] = makeIP(vm.ip + 2)
                   /\ vm'.stack[D - n + 1] = makeFP(vm.fp)
                   /\ \A i \in 1..n :
                         vm'.stack[vm'.fp + i] = vm.stack[D - n - 1 + i]
    ]_vars

RECURSIVE HeaderScan(_, _, _)
HeaderScan(buf, k, i) ==
    IF k = 0 THEN [status |-> "ok", end |-> i]
    ELSE IF i + 1 > Len(buf) THEN [status |-> "truncated", end |-> i]
    ELSE IF buf[i + 1] = CONST_INT THEN
        IF i + 5 > Len(buf) THEN [status |-> "truncated", end |-> i]
        ELSE HeaderScan(buf, k - 1, i + 5)
    ELSE IF buf[i + 1] = CONST_NUM THEN
        IF i + 9 > Len(buf) THEN [status |-> "truncated", end |-> i]
        ELSE HeaderScan(buf, k - 1, i + 9)
    ELSE IF buf[i + 1] = CONST_STR THEN
        IF i + 2 > Len(buf) \/ i + 2 + buf[i + 2] > Len(buf)
        THEN [status |-> "truncated", end |-> i]
        ELSE HeaderScan(buf, k - 1, i + 2 + buf[i + 2])
    ELSE [status |-> "unknown", end |-> i]

Header(buf) == HeaderScan(buf, buf[1], 1)

\* The offset of record j (0-based) of a well-formed header.
RecordAt(buf, j) == HeaderScan(buf, j, 1).end

\* C7: a buffer whose header is truncated makes the load fail with an error,
\* without a read at an index >= length.
C7_TruncatedHeaderRejected ==
(result \notin {"start", "init"} /\ Header(code).status = "truncated") => result = "Err"

\* Constant c of VM m is what the record at offset i of buf denotes.
ConstantIs(m, c, buf, i) ==
    IF buf[i + 1] = CONST_INT THEN
        /\ c.type = VAL_INT
        /\ c.as = <<buf[i + 2] + 256 * buf[i + 3] + 65536 * buf[i + 4]
                    + 16777216 * (IF buf[i + 5] < 128 THEN buf[i + 5]
                                  ELSE buf[i + 5] - 256)>>
    ELSE IF buf[i + 1] = CONST_NUM THEN
        /\ c.type = VAL_NUM
        /\ c.as = [b \in 1..8 |-> buf[i + 1 + b]]
    ELSE
        /\ IsObjOfType(m, c, OBJ_STRING)
        /\ m.objects[c.as[1]].data = [b \in 1..buf[i + 2] |-> buf[i + 2 + b]]

\* C8: a well-formed header of N records loads as N constants, constant i
\* with the tag and payload of record i, and ip starts at the byte after the
\* last record; a record with an unknown tag fails the load and nothing runs.
C8_ConstantsLoaded ==
    [][result = "init" =>
         /\ Header(code).status = "ok" =>
               /\ result' = "running"
               /\ vm'.constantCount = code[1]
               /\ Len(vm'.constants) = code[1]
               /\ vm'.ip = Header(code).end
               /\ \A j \in 0..(code[1] - 1) :
                     ConstantIs(vm', vm'.constants[j + 1], code, RecordAt(code, j))
         /\ Header(code).status = "unknown" =>
               /\ result' = "Err"
               /\ vm'.sp = 0
               /\ vm'.ip = vm.ip
    ]_vars

\* An Int, a Num or String constant of a two-record header was pushed.
C8_Witness ==
    /\ result = "running"
    /\ vm.constantCount = 2
    /\ vm.sp = 1
    /\ vm.stack[1].type = VAL_INT
    /\ vm.stack[1].as[1] < 0
    /\ IsObjOfType(vm, vm.constants[1], OBJ_STRING)

\* C9: the multi-slot moves are exactly bounded and atomic: OP_STRUCT n
\* fails on its pop iff depth < n; OP_DESTRUCT d of a struct of d + n fields
\* fails on its push iff depth + n > STACK_MAX (n = 0 never), and a failed
\* move leaves sp and the slots where they were.
C9_MultiSlotBounds ==
    [][/\ AtOp(OP_STRUCT, 1) =>
            LET n == Operand(1)
                D == vm.sp
            IN  /\ D < n => (result' = "Err" /\ vm'.sp = D /\ vm'.stack = vm.stack)
                /\ (D >= n /\ D - n < STACK_MAX) =>
                       (result' = "running" /\ vm'.sp = D - n + 1)
       /\ (AtOp(OP_DESTRUCT, 1) /\ vm.sp >= 1
             /\ IsObjOfType(vm, vm.stack[vm.sp], OBJ_STRUCT)
             /\ Operand(1) <= vm.objects[vm.stack[vm.sp].as[1]].fieldCount) =>
            LET obj == vm.objects[vm.stack[vm.sp].as[1]]
                n == obj.fieldCount - Operand(1)
                D == vm.sp - 1
            IN  /\ D + n > STACK_MAX =>
                       (result' = "Err" /\ vm'.sp = D /\ vm'.stack = vm.stack)
                /\ D + n <= STACK_MAX =>
                       /\ result' = "running"
                       /\ vm'.sp = D + n
                       /\ SlotsKept(D)
                       /\ \A i \in 1..n :
                             vm'.stack[D + i] = obj.fields[Operand(1) + i]
    ]_vars

\* C10: a push succeeds iff fewer than STACK_MAX slots are in use, a pop iff
\* at least one is, peek(off) iff off < depth and then addresses slot
\* sp - off - 1; a failing push, pop or peek leaves sp and the stack as they
\* were.  (push: OP_PUSH_TRUE, pop: OP_SET_RETURN, peek: OP_EXTRACT_FIELD.)
C10_SingleSlotBounds ==
    [][/\ Fetch(OP_PUSH_TRUE) =>
            IF vm.sp < STACK_MAX
            THEN /\ result' = "running"
                 /\ vm'.sp = vm.sp + 1
                 /\ vm'.stack[vm'.sp] = makeBool(TRUE)
                 /\ SlotsKept(vm.sp)
            ELSE result' = "Err" /\ vm'.sp = vm.sp /\ vm'.stack = vm.stack
       /\ Fetch(OP_SET_RETURN) =>
            IF vm.sp >= 1
            THEN /\ result' = "running"
                 /\ vm'.sp = vm.sp - 1
                 /\ vm'.returnStore = vm.stack[vm.sp]
                 /\ vm'.stack = vm.stack
            ELSE result' = "Err" /\ vm'.sp = vm.sp /\ vm'.stack = vm.stack
       /\ AtOp(OP_EXTRACT_FIELD, 2) =>
            IF Operand(1) < vm.sp
            THEN LET v == vm.stack[vm.sp - Operand(1)]
                     isField == /\ IsObjOfType(vm, v, OBJ_STRUCT)
                                /\ Operand(2) < vm.objects[v.as[1]].fieldCount
                 IN  IF isField /\ vm.sp < STACK_MAX
                     THEN /\ result' = "running"
                          /\ vm'.sp = vm.sp + 1
                          /\ vm'.stack[vm'.sp] =
                                 vm.objects[v.as[1]].fields[Operand(2) + 1]
                          /\ SlotsKept(vm.sp)
                     ELSE result' = "Err" /\ vm'.sp = vm.sp /\ vm'.stack = vm.stack
            ELSE result' = "Err" /\ vm'.sp = vm.sp /\ vm'.stack = vm.stack
    ]_vars

\* The 512th push has succeeded and the 513th has failed.
C10_Witness ==
    /\ result = "Err"
    /\ vm.sp = STACK_MAX
    /\ code[vm.ip] = OP_PUSH_TRUE
    /\ code[vm.ip - 1] = OP_PUSH_TRUE

\* The value on top of the stack is a reference to upvalue id.
TopIsUpvalue(id) ==
    /\ vm.sp >= 1
    /\ IsObjOfType(vm, vm.stack[vm.sp], OBJ_UPVALUE)
    /\ vm.stack[vm.sp].as[1] = id

\* C11: once the slot an upvalue was made on has been removed by OP_POP,
\* the upvalue holds the value the slot had at that pop, every OP_DEREF of
\* it yields that value whatever was pushed since, and an OP_SET_REF
\* through it changes its own copy and no stack slot.
C11_ClosedUpvalueKeepsValue ==
    [][/\ \A id \in DOMAIN hist'.frozen :
             SameValue(UpvalueTarget(vm', id), hist'.frozen[id])
       /\ \A id \in DOMAIN hist.frozen :
             /\ (Fetch(OP_DEREF) /\ TopIsUpvalue(id)) =>
                    /\ result' = "running"
                    /\ vm'.sp = vm.sp
                    /\ SameValue(vm'.stack[vm'.sp], hist.frozen[id])
             /\ (Fetch(OP_SET_REF) /\ TopIsUpvalue(id) /\ vm.sp >= 2) =>
                    /\ result' = "running"
                    /\ vm'.sp = vm.sp - 2
                    /\ SlotsKept(vm.sp - 2)
    ]_vars

\* The open upvalues linked from the chain of stack slot `slot` in VM m.
OpenLinked(m, slot) ==
    {id \in OpenUpvalues(m) : InChain(m, id, m.stack[slot + 1].references)}

\* C12: OP_SET_LOCAL i leaves the open upvalues linked from fp[i] as they
\* were, and a read through any of them yields the value just stored.
C12_SetLocalKeepsChain ==
    [][(AtOp(OP_SET_LOCAL, 1) /\ vm.fp >= 0 /\ vm.sp >= 1
          /\ Operand(1) < vm.sp - 1 - vm.fp) =>
         LET slot == vm.fp + Operand(1) IN
         /\ result' = "running"
         /\ SameValue(vm'.stack[slot + 1], vm.stack[vm.sp])
         /\ OpenLinked(vm', slot) = OpenLinked(vm, slot)
         /\ \A id \in OpenLinked(vm', slot) :
               SameValue(UpvalueTarget(vm', id), vm.stack[vm.sp])
    ]_vars

\* C13: OP_PUSH_LOCAL i pushes a copy of fp[i], OP_SET_LOCAL i pops v and
\* stores it in fp[i]; each fails for the index exactly when i >= sp - fp
\* (for OP_SET_LOCAL after the pop), and the slot read or written lies
\* below sp.
C13_LocalRange ==
    [][/\ (AtOp(OP_PUSH_LOCAL, 1) /\ vm.fp >= 0) =>
            IF Operand(1) >= vm.sp - vm.fp
            THEN result' = "Err" /\ vm'.sp = vm.sp /\ vm'.stack = vm.stack
            ELSE IF vm.sp = STACK_MAX
            THEN result' = "Err" /\ vm'.sp = vm.sp /\ vm'.stack = vm.stack
            ELSE /\ result' = "running"
                 /\ vm.fp + Operand(1) < vm.sp
                 /\ vm'.sp = vm.sp + 1
                 /\ vm'.stack[vm'.sp] = vm.stack[vm.fp + Operand(1) + 1]
                 /\ SlotsKept(vm.sp)
       /\ (AtOp(OP_SET_LOCAL, 1) /\ vm.fp >= 0 /\ vm.sp >= 1) =>
            IF Operand(1) >= vm.sp - 1 - vm.fp
            THEN result' = "Err" /\ vm'.sp = vm.sp - 1 /\ vm'.stack = vm.stack
            ELSE /\ result' = "running"
                 /\ vm.fp + Operand(1) < vm'.sp
                 /\ vm'.sp = vm.sp - 1
                 /\ SameValue(vm'.stack[vm.fp + Operand(1) + 1], vm.stack[vm.sp])
                 /\ \A i \in 1..Len(vm.stack) :
                       i # vm.fp + Operand(1) + 1 => vm'.stack[i] = vm.stack[i]
    ]_vars

\* Inside a callee's frame the index sp - fp was refused.
C13_Witness ==
    /\ result = "Err"
    /\ vm.fp > 0
    /\ vm.sp > vm.fp
    /\ vm.ip >= 2 /\ vm.ip <= length
    /\ code[vm.ip - 1] = OP_PUSH_LOCAL
    /\ code[vm.ip] = vm.sp - vm.fp

\* C14: OP_PUSH_GLOBAL i fails iff no OP_SET_GLOBAL i ran before it, and
\* otherwise pushes the value of the latest OP_SET_GLOBAL i, whatever ran
\* in between; OP_SET_GLOBAL succeeds for every index 0..255.
C14_GlobalsKeepLastWrite ==
    [][/\ AtOp(OP_PUSH_GLOBAL, 1) =>
            IF Operand(1) \notin DOMAIN hist.lastSet
            THEN result' = "Err" /\ vm'.sp = vm.sp /\ vm'.stack = vm.stack
            ELSE IF vm.sp = STACK_MAX
            THEN result' = "Err" /\ vm'.sp = vm.sp /\ vm'.stack = vm.stack
            ELSE /\ result' = "running"
                 /\ vm'.sp = vm.sp + 1
                 /\ vm'.stack[vm'.sp] = hist.lastSet[Operand(1)]
                 /\ SlotsKept(vm.sp)
       /\ (AtOp(OP_SET_GLOBAL, 1) /\ vm.sp >= 1) =>
            /\ result' = "running"
            /\ vm'.sp = vm.sp - 1
            /\ hist'.lastSet[Operand(1)] = vm.stack[vm.sp]
            /\ \A i \in DOMAIN hist.lastSet :
                  i # Operand(1) => hist'.lastSet[i] = hist.lastSet[i]
    ]_vars

\* Global 255 was read back after another global got a different value.
C14_Witness ==
    /\ result = "running"
    /\ vm.sp >= 1 /\ vm.sp <= STACK_MAX
    /\ vm.ip >= 2 /\ vm.ip <= length
    /\ code[vm.ip - 1] = OP_PUSH_GLOBAL
    /\ code[vm.ip] = U8_MAX
    /\ {0, U8_MAX} \subseteq DOMAIN hist.lastSet
    /\ vm.stack[vm.sp] = hist.lastSet[U8_MAX]
    /\ hist.lastSet[0] # hist.lastSet[U8_MAX]

\* C15: OP_DESTRUCT 0 right after a successful OP_STRUCT n succeeds and
\* leaves the stack, depth and values, as it was before the OP_STRUCT.
C15_StructDestructRoundTrip ==
    [][(AtOp(OP_DESTRUCT, 1) /\ Operand(1) = 0 /\ hist.pre # NoPre) =>
         /\ result' = "running"
         /\ vm'.sp = hist.pre.sp
         /\ SubSeq(vm'.stack, 1, vm'.sp) = hist.pre.stack
    ]_vars

\* C16: OP_JUMP_IF_FALSE off pops exactly one value; ip moves by off iff
\* that value is the Bool false, and for every other value execution goes
\* on at the byte after the operand.
C16_JumpOnlyOnFalse ==
    [][(AtOp(OP_JUMP_IF_FALSE, 1) /\ vm.sp >= 1) =>
         IF vm.stack[vm.sp].type = VAL_BOOL /\ vm.stack[vm.sp].as = <<0>>
         THEN vm.ip + 2 + Operand(1) <= vm.end =>
                 /\ result' = "running"
                 /\ vm'.sp = vm.sp - 1
                 /\ vm'.ip = vm.ip + 2 + Operand(1)
         ELSE /\ result' = "running"
              /\ vm'.sp = vm.sp - 1
              /\ vm'.ip = vm.ip + 2
    ]_vars

\* C17: OP_JUMP off, OP_LOOP off and an OP_JUMP_IF_FALSE off on false
\* fail when the target lies outside [start, end] and otherwise leave ip at
\* the byte after the operand plus off (minus off for OP_LOOP); from
\* ip = end the run ends with Ok.
C17_JumpRange ==
    [][/\ AtOp(OP_JUMP, 1) =>
            IF vm.ip + 2 + Operand(1) > vm.end THEN result' = "Err"
            ELSE /\ result' = "running"
                 /\ vm'.ip = vm.ip + 2 + Operand(1)
                 /\ vm'.sp = vm.sp /\ vm'.stack = vm.stack
       /\ AtOp(OP_LOOP, 1) =>
            IF vm.ip + 2 - Operand(1) < vm.start THEN result' = "Err"
            ELSE /\ result' = "running"
                 /\ vm'.ip = vm.ip + 2 - Operand(1)
                 /\ vm'.sp = vm.sp /\ vm'.stack = vm.stack
       /\ (AtOp(OP_JUMP_IF_FALSE, 1) /\ vm.sp >= 1
             /\ vm.stack[vm.sp] = makeBool(FALSE)) =>
            IF vm.ip + 2 + Operand(1) > vm.end THEN result' = "Err"
            ELSE /\ result' = "running"
                 /\ vm'.ip = vm.ip + 2 + Operand(1)
                 /\ vm'.sp = vm.sp - 1
       /\ (result = "running" /\ vm.ip = vm.end) => result' = "Ok"
    ]_vars

\* A jump over at least one byte landed exactly on end and the run ended Ok.
C17_Witness ==
    /\ result = "Ok"
    /\ hist.op.opc = OP_JUMP
    /\ code[hist.op.at + 2] >= 1
    /\ vm.ip = hist.op.at + 2 + code[hist.op.at + 2]
    /\ vm.ip = vm.end

\* C18: OP_JUMP off followed by the OP_LOOP off it lands on leaves ip where
\* it was but for the four bytes of the two instructions.
C18_JumpLoopCancel ==
    [][(AtOp(OP_LOOP, 1) /\ hist.op.opc = OP_JUMP
          /\ code[hist.op.at + 2] = Operand(1)) =>
         /\ result' = "running"
         /\ vm'.ip = hist.op.at + 4
    ]_vars

\* A jump over off >= 1 bytes and the loop back over off bytes have run.
C18_Witness ==
    /\ result = "running"
    /\ hist.prev.opc = OP_JUMP
    /\ hist.op.opc = OP_LOOP
    /\ code[hist.prev.at + 2] >= 1
    /\ code[hist.op.at + 2] = code[hist.prev.at + 2]
    /\ hist.op.at = hist.prev.at + 2 + code[hist.prev.at + 2]
    /\ vm.ip = hist.prev.at + 4

\* C19: with ..., u, v on the stack (v on top) OP_SET_REF pops both and
\* makes the cell of upvalue u hold v; it fails when u is not an upvalue.
C19_SetRefWritesThrough ==
    [][(Fetch(OP_SET_REF) /\ vm.sp >= 2) =>
         LET u == vm.stack[vm.sp - 1]
             v == vm.stack[vm.sp]
         IN  IF IsObjOfType(vm, u, OBJ_UPVALUE)
             THEN /\ result' = "running"
                  /\ vm'.sp = vm.sp - 2
                  /\ SameValue(UpvalueTarget(vm', u.as[1]), v)
             ELSE result' = "Err"
    ]_vars

\* s is an initial segment of t.
IsPrefix(s, t) == Len(s) <= Len(t) /\ SubSeq(t, 1, Len(s)) = s

\* C20: executeCode returns Ok exactly when the loop reaches ip = end with
\* no handler having failed; a failing handler or an opcode byte >=
\* OP_COUNT ends the run with Err at once, nothing runs after that, and the
\* lines printed before stay in the output in order.
C20_RunOutcome ==
    [][/\ result' = "Ok" => (result = "running" /\ vm.ip = vm.end)
       /\ (result = "running" /\ vm.ip = vm.end) => result' = "Ok"
       /\ (result = "running" /\ vm.ip < vm.end /\ code[vm.ip + 1] >= OP_COUNT) =>
             (result' = "Err" /\ stdout' = stdout)
       /\ (Fetch(OP_PRINT) /\ vm.sp >= 1) =>
             IF IsObjOfType(vm, vm.stack[vm.sp], OBJ_STRING)
             THEN /\ result' = "running"
                  /\ stdout' = Append(stdout, vm.objects[vm.stack[vm.sp].as[1]].data)
             ELSE result' = "Err" /\ stdout' = stdout
       /\ result' = "Err" => stdout' = stdout
       /\ result \in {"Ok", "Err"} =>
             UNCHANGED <<code, length, vm, result, stdout, calls, hist>>
       /\ IsPrefix(stdout, stdout')
    ]_vars

\* C21: OP_INT, OP_BOOL, OP_NUM and OP_STR fail on a top value of tag Obj,
\* IP or FP and leave the stack as it was; on a Bool, Nil or Int they
\* succeed in place, the depth and the slots beneath unchanged, with
\* INT: true -> 1, false -> 0, nil -> 0, n -> n; BOOL: b -> b, nil -> false,
\* n -> (n # 0); NUM: true -> 1.0, false -> 0.0, nil -> 0.0, n -> the double
\* equal to n (its integral part is n and its text is n's digits followed
\* by .0000000); STR: a String.
C21_CastsInPlace ==
    [][\A opc \in {OP_INT, OP_BOOL, OP_NUM, OP_STR} :
         (Fetch(opc) /\ vm.sp >= 1) =>
            LET v == vm.stack[vm.sp]
                w == vm'.stack[vm.sp]
            IN  IF v.type \in {VAL_OBJ, VAL_IP, VAL_FP}
                THEN result' = "Err" /\ vm'.sp = vm.sp /\ vm'.stack = vm.stack
                ELSE v.type \in {VAL_BOOL, VAL_NIL, VAL_INT} =>
                     /\ result' = "running"
                     /\ vm'.sp = vm.sp
                     /\ SlotsKept(vm.sp - 1)
                     /\ opc = OP_INT =>
                           /\ w.type = VAL_INT
                           /\ w.as = IF v.type = VAL_BOOL THEN v.as
                                     ELSE IF v.type = VAL_NIL THEN <<0>>
                                     ELSE v.as
                     /\ opc = OP_BOOL =>
                           /\ w.type = VAL_BOOL
                           /\ w.as = IF v.type = VAL_BOOL THEN v.as
                                     ELSE IF v.type = VAL_NIL THEN <<0>>
                                     ELSE IF v.as[1] # 0 THEN <<1>> ELSE <<0>>
                     /\ opc = OP_NUM =>
                           /\ w.type = VAL_NUM
                           /\ v.type = VAL_BOOL =>
                                 w.as = IF v.as = <<1>> THEN F64One ELSE F64Zero
                           /\ v.type = VAL_NIL => w.as = F64Zero
                           /\ v.type = VAL_INT =>
                                 /\ F64ToS32(w.as) = {v.as[1]}
                                 /\ F64Fixable(w.as) =>
                                       Fixed7(w.as) = Decimal(v.as[1])
                                           \o <<46, 48, 48, 48, 48, 48, 48, 48>>
                     /\ opc = OP_STR => IsObjOfType(vm', w, OBJ_STRING)
    ]_vars

\* OP_NUM has turned the Int constant 5 into the Num 5.0.
C21_Witness ==
    /\ result = "running"
    /\ hist.op.opc = OP_NUM
    /\ hist.prev.opc = OP_PUSH_CONST
    /\ code[hist.prev.at + 2] = 1
    /\ vm.sp = 1
    /\ vm.stack[1] = makeNum(<<0, 0, 0, 0, 0, 0, 20, 64>>)

\* C22: OP_BOOL on a Num x yields the Bool (x != 0.0): true for every
\* non-zero x (NaN included) and false for 0.0 and -0.0.
C22_NumToBool ==
    [][(Fetch(OP_BOOL) /\ vm.sp >= 1 /\ vm.stack[vm.sp].type = VAL_NUM) =>
         /\ result' = "running"
         /\ vm'.sp = vm.sp
         /\ SameValue(vm'.stack[vm.sp], makeBool(~F64IsZero(vm.stack[vm.sp].as)))
    ]_vars

\* The numeric value x that the OP_STR before the last instruction found on
\* top, when the last two instructions were OP_STR; OP_INT, adjacent.
StrIntOf(at) ==
    /\ hist.op.opc = OP_INT /\ hist.op.at = at - 1
    /\ hist.prev.opc = OP_STR /\ hist.prev.at = at - 2
    /\ hist.prev.top.type \in {VAL_INT, VAL_NUM}

\* The int32_t values trunc(x) of a numeric x.
Trunc(x) == IF x.type = VAL_INT THEN {x.as[1]} ELSE F64ToS32(x.as)

\* C23: with a numeric x (Int or Num) on top, OP_STR; OP_INT; OP_STR runs
\* without error and leaves in x's slot a String holding the decimal digits
\* of trunc(x): the OP_INT after the OP_STR succeeds, and so does the last
\* OP_STR, whose result is that String.
C23_StrIntStr ==
    [][/\ (Fetch(OP_INT) /\ vm.ip + 1 < vm.end /\ code[vm.ip + 2] = OP_STR
             /\ hist.op.opc = OP_STR /\ hist.op.at = vm.ip - 1
             /\ hist.op.top.type \in {VAL_INT, VAL_NUM}) =>
            result' = "running" /\ vm'.sp = vm.sp
       /\ (Fetch(OP_STR) /\ StrIntOf(vm.ip)) =>
            /\ result' = "running"
            /\ vm'.sp = vm.sp
            /\ IsObjOfType(vm', vm'.stack[vm.sp], OBJ_STRING)
            /\ \E n \in Trunc(hist.prev.top) :
                  vm'.objects[vm'.stack[vm.sp].as[1]].data = Decimal(n)
    ]_vars

\* The String objects of m.
Strings(m) == {i \in DOMAIN m.objects : m.objects[i].type = OBJ_STRING}

\* C24: whatever strings the constant header, OP_STR and OP_STR_CAT have
\* created, no two distinct String objects hold the same bytes, and OP_EQUAL
\* on two String values leaves true exactly when their bytes are equal.
C24_StringsInterned ==
    [][/\ \A i, j \in Strings(vm') :
             vm'.objects[i].data = vm'.objects[j].data => i = j
       /\ (/\ Fetch(OP_EQUAL) /\ vm.sp >= 2
           /\ IsObjOfType(vm, vm.stack[vm.sp], OBJ_STRING)
           /\ IsObjOfType(vm, vm.stack[vm.sp - 1], OBJ_STRING)) =>
             /\ result' = "running"
             /\ vm'.stack[vm.sp - 1] =
                   makeBool(vm.objects[vm.stack[vm.sp - 1].as[1]].data
                                = vm.objects[vm.stack[vm.sp].as[1]].data)]_vars

\* C25: OP_IS_VAL_TYPE t and OP_IS_OBJ_TYPE t leave every slot of the stack
\* as it was; with room for one more slot OP_IS_VAL_TYPE pushes the Bool
\* (value tag = t), OP_IS_OBJ_TYPE on an Obj pushes the Bool (object tag = t)
\* and on any other value pushes false or fails.
C25_TypeTests ==
    [][\A opc \in {OP_IS_VAL_TYPE, OP_IS_OBJ_TYPE} :
         (Fetch(opc) /\ vm.end - vm.ip >= 2 /\ vm.sp >= 1 /\ vm.sp < STACK_MAX) =>
            LET t == code[vm.ip + 2]
                v == vm.stack[vm.sp]
                Pushed(b) == /\ result' = "running"
                             /\ vm'.sp = vm.sp + 1
                             /\ vm'.stack[vm.sp + 1] = makeBool(b)
            IN  /\ SlotsKept(vm.sp)
                /\ opc = OP_IS_VAL_TYPE => Pushed(v.type = t)
                /\ opc = OP_IS_OBJ_TYPE =>
                      IF v.type = VAL_OBJ
                      THEN Pushed(vm.objects[v.as[1]].type = t)
                      ELSE result' = "Err" \/ Pushed(FALSE)]_vars

ArithOps ==
    {OP_INT_NEG, OP_NUM_NEG, OP_INT_ADD, OP_NUM_ADD, OP_INT_SUB, OP_NUM_SUB,
     OP_INT_MUL, OP_NUM_MUL, OP_INT_DIV, OP_NUM_DIV, OP_NOT, OP_INT_LESS,
     OP_NUM_LESS, OP_INT_GREATER, OP_NUM_GREATER}

UnaryOps == {OP_INT_NEG, OP_NUM_NEG, OP_NOT}

\* C26: with their operands on the stack (one for the negations and OP_NOT,
\* two for the others) the Int and Num arithmetic and comparison handlers and
\* OP_NOT succeed whatever the operands are, a zero divisor and INT_MIN / -1
\* included, and leave one result where the operands were.
C26_ArithmeticNeverFails ==
    [][\A opc \in ArithOps :
         LET n == IF opc \in UnaryOps THEN 1 ELSE 2 IN
         (Fetch(opc) /\ vm.sp >= n) =>
            /\ result' = "running"
            /\ vm'.sp = vm.sp - n + 1
            /\ SlotsKept(vm.sp - n)]_vars

\* C27: OP_STR_CAT on ..., a, b fails unless a and b are both Strings; when
\* they are, the two slots become one String whose bytes are those of a
\* followed by those of b, the slots beneath unchanged.
C27_StrCat ==
    [][(Fetch(OP_STR_CAT) /\ vm.sp >= 2) =>
         LET a == vm.stack[vm.sp - 1]
             b == vm.stack[vm.sp]
         IN  IF IsObjOfType(vm, a, OBJ_STRING) /\ IsObjOfType(vm, b, OBJ_STRING)
             THEN /\ result' = "running"
                  /\ vm'.sp = vm.sp - 1
                  /\ SlotsKept(vm.sp - 2)
                  /\ IsObjOfType(vm', vm'.stack[vm.sp - 1], OBJ_STRING)
                  /\ LET s == vm'.objects[vm'.stack[vm.sp - 1].as[1]].data
                     IN  /\ s = vm.objects[a.as[1]].data \o vm.objects[b.as[1]].data
                         /\ Len(s) = Len(vm.objects[a.as[1]].data)
                                        + Len(vm.objects[b.as[1]].data)
             ELSE result' = "Err"]_vars

\* "hi" and "a" concatenated to "hia".
C27_Witness ==
    /\ hist.op.opc = OP_STR_CAT
    /\ result = "running"
    /\ vm.sp = 1
    /\ IsObjOfType(vm, vm.stack[1], OBJ_STRING)
    /\ vm.objects[vm.stack[1].as[1]].data = <<104, 105, 97>>

\* C28: whenever main has returned, freeVM has run exactly once, the module
\* buffer is not left allocated, and the exit status is 0 exactly when
\* executeCode returned Ok; freeVM never runs twice.
C28_TeardownOnExit ==
    /\ main.freeVM <= 1
    /\ main.pc = "returned" =>
          /\ main.freeVM = 1
          /\ main.buffer # "live"
          /\ main.exit = 0 <=> result = "Ok"
          /\ main.file \in {"missing", "empty"} => main.buffer = "none"

\* main has returned 1 after a module that printed a line and then failed.
C28_Witness ==
    /\ main.pc = "returned"
    /\ main.exit = 1
    /\ result = "Err"
    /\ main.buffer = "freed"
    /\ stdout # <<>>

\* The step stores v in field i of struct id and touches no other object.
FieldStored(id, i, v) ==
    vm'.objects = [vm.objects EXCEPT ![id].fields[i + 1] = v]

\* C29: OP_SET_FIELD i on ..., s, v and OP_INSERT_FIELD off i on
\* ..., s, (off slots), v pop v and store it in field i of the struct s; s
\* and every other slot stay, no other field of any struct changes and no
\* field count changes; when s is not a Struct or i >= its field count they
\* fail and no field is written.
C29_FieldWrites ==
    [][/\ (AtOp(OP_SET_FIELD, 1) /\ vm.sp >= 2) =>
             LET i == Operand(1)
                 s == vm.stack[vm.sp - 1]
             IN  /\ SlotsKept(vm.sp - 1)
                 /\ IF IsObjOfType(vm, s, OBJ_STRUCT)
                       /\ i < vm.objects[s.as[1]].fieldCount
                    THEN /\ result' = "running"
                         /\ vm'.sp = vm.sp - 1
                         /\ FieldStored(s.as[1], i, vm.stack[vm.sp])
                    ELSE result' = "Err" /\ vm'.objects = vm.objects
       /\ (AtOp(OP_INSERT_FIELD, 2) /\ vm.sp >= Operand(1) + 2) =>
             LET i == Operand(2)
                 s == vm.stack[vm.sp - 1 - Operand(1)]
             IN  /\ SlotsKept(vm.sp - 1)
                 /\ IF IsObjOfType(vm, s, OBJ_STRUCT)
                       /\ i < vm.objects[s.as[1]].fieldCount
                    THEN /\ result' = "running"
                         /\ vm'.sp = vm.sp - 1
                         /\ FieldStored(s.as[1], i, vm.stack[vm.sp])
                    ELSE result' = "Err" /\ vm'.objects = vm.objects
       /\ \A id \in DOMAIN vm.objects :
             vm.objects[id].type = OBJ_STRUCT =>
                /\ vm'.objects[id].fieldCount = vm.objects[id].fieldCount
                /\ Len(vm'.objects[id].fields) = Len(vm.objects[id].fields)
      ]_vars

\* Field 1 of the two-field struct below the top was overwritten with nil by
\* OP_INSERT_FIELD 1 1, field 0 keeping the constant 10.
C29_Witness ==
    /\ hist.op.opc = OP_INSERT_FIELD
    /\ result = "running"
    /\ vm.sp = 2
    /\ IsObjOfType(vm, vm.stack[1], OBJ_STRUCT)
    /\ vm.objects[vm.stack[1].as[1]].fields = <<makeInt(10), makeNil>>

\* C30: OP_GET_FIELD i replaces the struct on top by its field i;
\* OP_EXTRACT_FIELD off i pushes field i of the struct off slots below the top
\* and leaves every slot and every object as it was; both fail when the
\* addressed value is not a Struct or i >= its field count.
C30_FieldReads ==
    [][/\ (AtOp(OP_GET_FIELD, 1) /\ vm.sp >= 1) =>
             LET i == Operand(1)
                 s == vm.stack[vm.sp]
             IN  /\ SlotsKept(vm.sp - 1)
                 /\ vm'.objects = vm.objects
                 /\ IF IsObjOfType(vm, s, OBJ_STRUCT)
                       /\ i < vm.objects[s.as[1]].fieldCount
                    THEN /\ result' = "running"
                         /\ vm'.sp = vm.sp
                         /\ vm'.stack[vm.sp] = vm.objects[s.as[1]].fields[i + 1]
                    ELSE result' = "Err"
       /\ (AtOp(OP_EXTRACT_FIELD, 2) /\ vm.sp >= Operand(1) + 1
                                     /\ vm.sp < STACK_MAX) =>
             LET i == Operand(2)
                 s == vm.stack[vm.sp - Operand(1)]
             IN  /\ SlotsKept(vm.sp)
                 /\ vm'.objects = vm.objects
                 /\ IF IsObjOfType(vm, s, OBJ_STRUCT)
                       /\ i < vm.objects[s.as[1]].fieldCount
                    THEN /\ result' = "running"
                         /\ vm'.sp = vm.sp + 1
                         /\ vm'.stack[vm.sp + 1] = vm.objects[s.as[1]].fields[i + 1]
                    ELSE result' = "Err"
      ]_vars

\* OP_EXTRACT_FIELD 1 1 pushed the constant 11 out of the two-field struct
\* one slot below the top, both structs still in their slots.
C30_Witness ==
    /\ hist.op.opc = OP_EXTRACT_FIELD
    /\ result = "running"
    /\ vm.sp = 3
    /\ vm.stack[3] = makeInt(11)
    /\ IsObjOfType(vm, vm.stack[1], OBJ_STRUCT)
    /\ IsObjOfType(vm, vm.stack[2], OBJ_STRUCT)
    /\ vm.objects[vm.stack[1].as[1]].fieldCount = 2

\* C31: an upvalue made by OP_REF_LOCAL on a slot that is still on the stack
\* stays open and keeps pointing at that slot when OP_POP removes a slot
\* above it (a copy pushed by OP_PUSH_LOCAL or OP_DEREF included), and
\* OP_DEREF of it yields what the slot holds now, a value stored by
\* OP_SET_LOCAL since the capture included.
C31_CopiesCarryNoCaptures ==
    [][\A p \in hist.pending :
         /\ (Fetch(OP_POP) /\ vm.sp - 1 > p.slot) =>
               /\ vm'.objects[p.id].open
               /\ vm'.objects[p.id].ptr = p.slot
         /\ (Fetch(OP_DEREF) /\ TopIsUpvalue(p.id) /\ p.slot < vm.sp - 1) =>
               /\ result' = "running"
               /\ SameValue(vm'.stack[vm.sp], vm.stack[p.slot + 1])
      ]_vars

\* C32: OP_SET_REF through an open upvalue leaves the open upvalues linked
\* from the slot it writes to as they were, so that an OP_POP of that slot
\* closes each of them.
C32_SetRefKeepsChain ==
    [][(Fetch(OP_SET_REF) /\ vm.sp >= 2
          /\ IsObjOfType(vm, vm.stack[vm.sp], OBJ_UPVALUE)
          /\ vm.objects[vm.stack[vm.sp].as[1]].open
          /\ vm.objects[vm.stack[vm.sp].as[1]].ptr < vm.sp - 2) =>
         LET slot == vm.objects[vm.stack[vm.sp].as[1]].ptr IN
         /\ result' = "running"
         /\ OpenLinked(vm', slot) = OpenLinked(vm, slot)
         /\ \A id \in OpenUpvalues(vm') :
               vm'.objects[id].ptr = slot =>
                  InChain(vm', id, vm'.stack[slot + 1].references)
      ]_vars

\* The offset of the first code byte: where loadConstants stops in the buffer.
FirstCodeByte == loadConstants(initVM).index

\* C33: once the constants are loaded ip stays within the code segment,
\* from the first code byte up to end, and an OP_LOOP whose target lies
\* before the first code byte fails.
C33_IpInCodeSegment ==
    result = "running" => (FirstCodeByte <= vm.ip /\ vm.ip <= vm.end)

\* C34: OP_DESTRUCT d on a struct of n fields pushes fields d..n-1 in order
\* in place of the struct when d <= n and the fields fit; when d > n it
\* pushes nothing or fails; it never leaves sp above the stack array nor the
\* outcome undefined; on a value that is not a Struct it fails.
C34_Destruct ==
    [][(AtOp(OP_DESTRUCT, 1) /\ vm.sp >= 1 /\ vm.sp > vm.fp) =>
         IF ~IsObjOfType(vm, vm.stack[vm.sp], OBJ_STRUCT)
         THEN result' = "Err"
         ELSE LET structObj == vm.objects[vm.stack[vm.sp].as[1]]
                  n == structObj.fieldCount
                  d == Operand(1)
              IN  /\ result' \in {"running", "Err"}
                  /\ vm'.sp <= STACK_MAX
                  /\ (result' = "running" /\ d <= n) =>
                        /\ vm'.sp = vm.sp - 1 + (n - d)
                        /\ \A i \in 1..(n - d) :
                              vm'.stack[vm.sp - 1 + i] = structObj.fields[d + i]
                  /\ (result' = "running" /\ d > n) => vm'.sp = vm.sp - 1
    ]_vars

\* No byte of the code segment is OP_LOOP, OP_CALL or OP_LOAD_IP.
NoBackwardOps ==
    \A i \in (FirstCodeByte + 1)..length :
        code[i] \notin {OP_LOOP, OP_CALL, OP_LOAD_IP}

Outcomes ==
    LET opc == code[vm.ip + 1] IN
    CASE opc = OP_INT -> op_int(Fetched)
      [] opc = OP_INT_NEG -> op_intNeg(Fetched)
      [] opc = OP_NUM_NEG -> op_numNeg(Fetched)
      [] opc = OP_INT_ADD -> op_intAdd(Fetched)
      [] opc = OP_NUM_ADD -> op_numAdd(Fetched)
      [] opc = OP_INT_SUB -> op_intSub(Fetched)
      [] opc = OP_NUM_SUB -> op_numSub(Fetched)
      [] opc = OP_INT_MUL -> op_intMul(Fetched)
      [] opc = OP_NUM_MUL -> op_numMul(Fetched)
      [] opc = OP_INT_DIV -> op_intDiv(Fetched)
      [] opc = OP_NUM_DIV -> op_numDiv(Fetched)
      [] opc = OP_NOT -> op_not(Fetched)
      [] opc = OP_INT_LESS -> op_intLess(Fetched)
      [] opc = OP_NUM_LESS -> op_numLess(Fetched)
      [] opc = OP_INT_GREATER -> op_intGreater(Fetched)
      [] opc = OP_NUM_GREATER -> op_numGreater(Fetched)
      [] opc = OP_EQUAL -> op_equal(Fetched)
      [] opc = OP_IS_OBJ_TYPE -> op_isObjType(Fetched)
      [] OTHER -> {}

\* What a run shows of an outcome: the handler's result, the lines printed,
\* the live stack, the globals and the return store.
Observed(r) ==
    [res |-> r.res, out |-> r.out, sp |-> r.vm.sp,
     stack |-> SubSeq(r.vm.stack, 1, r.vm.sp), globals |-> r.vm.globals,
     returnStore |-> r.vm.returnStore]

\* C36: in a module without OP_CLOCK every instruction has one outcome: the
\* same state always continues with the same result, printed lines, stack,
\* globals and return store, so that two runs of the module from a fresh VM
\* agree step by step.
C36_Deterministic ==
    (/\ result = "running" /\ vm.end - vm.ip > 0
     /\ \A i \in 1..length : code[i] # OP_CLOCK) =>
        \A r1, r2 \in Outcomes :
            (r1.res # "NotComputed" /\ r2.res # "NotComputed") =>
                /\ r1.res # "Undefined"
                /\ Observed(r1) = Observed(r2)

\* The upvalues made by OP_REF_LOCAL on a slot that is still on the stack
\* and still open.
OpenOn(slot) ==
    {p.id : p \in {q \in hist.pending : q.slot = slot /\ vm.objects[q.id].open}}

\* C37: a local that is still on the stack and the open upvalues made on it
\* are one cell: an OP_SET_REF through one of them stores the value in the
\* slot and leaves every one of them open on it, OP_PUSH_LOCAL of the slot
\* pushes what the slot holds and OP_DEREF of any of them yields it.
C37_OneCell ==
    [][\A p \in hist.pending :
         LET here == OpenOn(p.slot) IN
         /\ (Fetch(OP_SET_REF) /\ TopIsUpvalue(p.id) /\ p.id \in here
               /\ p.slot < vm.sp - 2) =>
              /\ result' = "running"
              /\ vm'.sp = vm.sp - 2
              /\ SameValue(vm'.stack[p.slot + 1], vm.stack[vm.sp - 1])
              /\ \A id \in here :
                    /\ vm'.objects[id].open
                    /\ vm'.objects[id].ptr = p.slot
         /\ (AtOp(OP_PUSH_LOCAL, 1) /\ p.id \in here
               /\ vm.fp + Operand(1) = p.slot /\ vm.sp < STACK_MAX) =>
              /\ result' = "running"
              /\ SameValue(vm'.stack[vm.sp + 1], vm.stack[p.slot + 1])
         /\ (Fetch(OP_DEREF) /\ TopIsUpvalue(p.id) /\ p.id \in here
               /\ p.slot < vm.sp - 1) =>
              /\ result' = "running"
              /\ SameValue(vm'.stack[vm.sp], vm.stack[p.slot + 1])
    ]_vars

\* A value stored through one of two open upvalues of local 0 has just been
\* read through the other one.
C37_Witness ==
    /\ result = "running"
    /\ Len(code) = 17 /\ code[14] = OP_SET_REF /\ code[17] = OP_DEREF
    /\ code[13] # code[16]
    /\ vm.ip = vm.end
    /\ Cardinality(OpenOn(0)) = 2
    /\ vm.sp = 2
    /\ vm.stack[1].type # VAL_BOOL
    /\ SameValue(vm.stack[2], vm.stack[1])

\* C38: the upvalues whose slot OP_POP has removed each hold their own
\* copy: an OP_SET_REF through one of them stores the value in it and
\* leaves what every other one holds as it was, and an OP_DEREF through any
\* value copy of an upvalue yields the value last stored through that
\* upvalue (or, with no store since, the value the slot had at the pop).
C38_ClosedCopiesAreSeparate ==
    [][\A a \in DOMAIN hist.frozen :
         /\ (Fetch(OP_SET_REF) /\ TopIsUpvalue(a) /\ vm.sp >= 2) =>
              /\ result' = "running"
              /\ SameValue(UpvalueTarget(vm', a), vm.stack[vm.sp - 1])
              /\ \A b \in DOMAIN hist.frozen \ {a} :
                    SameValue(UpvalueTarget(vm', b), UpvalueTarget(vm, b))
         /\ (Fetch(OP_DEREF) /\ TopIsUpvalue(a)) =>
              /\ result' = "running"
              /\ SameValue(vm'.stack[vm.sp], hist.frozen[a])
    ]_vars

\* The struct values the VM holds: in live stack slots, in globals, in the
\* return store and in fields of structs.
StructRefs ==
    LET held == {vm.stack[i] : i \in 1..vm.sp}
                  \cup {vm.globals.data[g] : g \in vm.globals.isSet}
                  \cup {vm.returnStore}
                  \cup UNION {{vm.objects[id].fields[k] :
                                  k \in 1..Len(vm.objects[id].fields)} :
                              id \in {x \in 1..Len(vm.objects) :
                                         vm.objects[x].type = OBJ_STRUCT}}
    IN  {c \in held : IsObjOfType(vm, c, OBJ_STRUCT)}

\* Field i of the record that the struct value s refers to receives v: the
\* field read through every copy of s is v afterwards and the fields of
\* every other struct are as they were.
WrittenThrough(s, i, v) ==
    \A c \in StructRefs :
        IF c.as = s.as
        THEN vm'.objects[c.as[1]].fields[i + 1] = v
        ELSE vm'.objects[c.as[1]].fields = vm.objects[c.as[1]].fields

\* The value pushed by the step is the struct value c itself.
PushedRef(c) == vm'.sp = vm.sp + 1 /\ SameValue(vm'.stack[vm.sp + 1], c)

\* C39: a struct value is a reference to one record.  OP_PUSH_LOCAL,
\* OP_PUSH_GLOBAL, OP_PUSH_RETURN and the field reads push the reference
\* they find, OP_STRUCT stores the references it pops and yields a record no
\* value referred to before, and OP_SET_FIELD / OP_INSERT_FIELD through one
\* reference change the field read through every copy of it and no field of
\* another struct.
C39_StructsAreReferences ==
    [][/\ (AtOp(OP_PUSH_LOCAL, 1) /\ vm.fp >= 0 /\ vm.sp < STACK_MAX
             /\ vm.fp + Operand(1) < vm.sp
             /\ vm.stack[vm.fp + Operand(1) + 1] \in StructRefs) =>
            PushedRef(vm.stack[vm.fp + Operand(1) + 1])
       /\ (AtOp(OP_PUSH_GLOBAL, 1) /\ vm.sp < STACK_MAX
             /\ Operand(1) \in vm.globals.isSet
             /\ vm.globals.data[Operand(1)] \in StructRefs) =>
            PushedRef(vm.globals.data[Operand(1)])
       /\ (Fetch(OP_PUSH_RETURN) /\ vm.sp < STACK_MAX
             /\ vm.returnStore \in StructRefs) =>
            PushedRef(vm.returnStore)
       /\ (AtOp(OP_GET_FIELD, 1) /\ vm.sp >= 1
             /\ IsObjOfType(vm, vm.stack[vm.sp], OBJ_STRUCT)
             /\ Operand(1) < vm.objects[vm.stack[vm.sp].as[1]].fieldCount) =>
            /\ vm'.sp = vm.sp
            /\ SameValue(vm'.stack[vm.sp],
                         vm.objects[vm.stack[vm.sp].as[1]].fields[Operand(1) + 1])
       /\ (AtOp(OP_EXTRACT_FIELD, 2) /\ vm.sp >= Operand(1) + 1
             /\ vm.sp < STACK_MAX
             /\ IsObjOfType(vm, vm.stack[vm.sp - Operand(1)], OBJ_STRUCT)
             /\ Operand(2) <
                  vm.objects[vm.stack[vm.sp - Operand(1)].as[1]].fieldCount) =>
            PushedRef(vm.objects[vm.stack[vm.sp - Operand(1)].as[1]]
                        .fields[Operand(2) + 1])
       /\ (AtOp(OP_STRUCT, 1) /\ result' = "running") =>
            LET new == vm'.stack[vm'.sp] IN
            /\ new \notin StructRefs
            /\ \A c \in StructRefs :
                  vm'.objects[c.as[1]].fields = vm.objects[c.as[1]].fields
            /\ \A k \in 1..Operand(1) :
                  SameValue(vm'.objects[new.as[1]].fields[k],
                            vm.stack[vm.sp - Operand(1) + k])
       /\ (AtOp(OP_SET_FIELD, 1) /\ vm.sp >= 2
             /\ IsObjOfType(vm, vm.stack[vm.sp - 1], OBJ_STRUCT)
             /\ Operand(1) < vm.objects[vm.stack[vm.sp - 1].as[1]].fieldCount) =>
            WrittenThrough(vm.stack[vm.sp - 1], Operand(1), vm.stack[vm.sp])
       /\ (AtOp(OP_INSERT_FIELD, 2) /\ vm.sp >= Operand(1) + 2
             /\ IsObjOfType(vm, vm.stack[vm.sp - 1 - Operand(1)], OBJ_STRUCT)
             /\ Operand(2) <
                  vm.objects[vm.stack[vm.sp - 1 - Operand(1)].as[1]].fieldCount) =>
            WrittenThrough(vm.stack[vm.sp - 1 - Operand(1)], Operand(2),
                           vm.stack[vm.sp])
    ]_vars

\* The struct of local 0 was copied through global 0, nil was written to
\* field 0 through the copy by OP_SET_FIELD, and OP_EXTRACT_FIELD 1 0 read
\* nil through the local.
C39_Witness ==
    /\ result = "running"
    /\ hist.op.opc = OP_EXTRACT_FIELD /\ code[hist.op.at + 2] = 1
    /\ hist.prev.opc = OP_SET_FIELD
    /\ vm.sp = 3
    /\ IsObjOfType(vm, vm.stack[1], OBJ_STRUCT)
    /\ SameValue(vm.stack[2], vm.stack[1])
    /\ 0 \in vm.globals.isSet
    /\ SameValue(vm.globals.data[0], vm.stack[1])
    /\ vm.stack[3] = makeNil

====
